---- MODULE Spec2Model ----
(***************************************************************************)
(* A model of cc-redis: the keyspace (an insertion-ordered map guarded by  *)
(* one mutex), the command pipeline (Request::try_from, Request::execute,  *)
(* the shared numeric executor) and the expiry reaper.                     *)
(*                                                                         *)
(* Text is modelled as a sequence of one-character strings, so that        *)
(* to_lowercase, parse::<i64> and to_string are computed and not assumed.  *)
(* i64 is modelled as a two's-complement integer of Bits bits.             *)
(* Instants are milliseconds since the Unix epoch.                         *)
(***************************************************************************)
EXTENDS Integers, Sequences, FiniteSets, TLC

\* ------------------------------------------------------------------ bounds

\* Width of the modelled i64.
Bits == 2
\* Number of clock advances in one behaviour.
MaxTicks == 1
\* Largest sample size handed to the reaper.
MaxSample == 2
\* Number of numeric commands each connection issues in ConcSpec.
MaxOps == 2

\* ------------------------------------------------------- program constants

I64_MIN == -(2 ^ (Bits - 1))
I64_MAX == (2 ^ (Bits - 1)) - 1
I64 == I64_MIN..I64_MAX
U64_MAX == (2 ^ Bits) - 1

\* Duration::from_secs against Duration::from_millis, in milliseconds.
MillisPerSec == 1000

\* The instant the behaviour starts at (some time after the Unix epoch).
StartTime == 1

\* ------------------------------------------------------------------- text

Digits == <<"0", "1", "2", "3", "4", "5", "6", "7", "8", "9">>

DigitValue(c) == CHOOSE d \in 0..9 : Digits[d + 1] = c

IsDigit(c) == \E d \in 0..9 : Digits[d + 1] = c

RECURSIVE NatToString(_)
NatToString(n) ==
    IF n < 10 THEN <<Digits[n + 1]>>
    ELSE NatToString(n \div 10) \o <<Digits[(n % 10) + 1]>>

\* i64::to_string (Display for i64): the decimal literal, '-' first when negative.
i64_to_string(i) == IF i < 0 THEN <<"-">> \o NatToString(-i) ELSE NatToString(i)

RECURSIVE DigitsToNat(_)
DigitsToNat(s) ==
    IF s = <<>> THEN 0
    ELSE 10 * DigitsToNat(SubSeq(s, 1, Len(s) - 1)) + DigitValue(s[Len(s)])

AllDigits(s) == s # <<>> /\ \A n \in 1..Len(s) : IsDigit(s[n])

\* Option<T>: None is the empty sequence, Some(x) the one-element sequence.
None == <<>>
Some(x) == <<x>>
IsSome(o) == o # <<>>
Unwrap(o) == o[1]

\* str::parse::<i64>: an optional sign, then digits; out of range is an error.
ParseI64(s) ==
    LET signed == s # <<>> /\ s[1] \in {"-", "+"}
        body == IF signed THEN Tail(s) ELSE s
        mag == DigitsToNat(body)
        v == IF s # <<>> /\ s[1] = "-" THEN -mag ELSE mag
    IN  IF AllDigits(body) /\ v \in I64 THEN Some(v) ELSE None

\* str::parse::<u64>: an optional '+', then digits; out of range is an error.
ParseU64(s) ==
    LET signed == s # <<>> /\ s[1] = "+"
        body == IF signed THEN Tail(s) ELSE s
        v == DigitsToNat(body)
    IN  IF AllDigits(body) /\ v <= U64_MAX THEN Some(v) ELSE None

Upper == <<"A", "B", "C", "D", "E", "F", "G", "H", "I", "J", "K", "L", "M",
           "N", "O", "P", "Q", "R", "S", "T", "U", "V", "W", "X", "Y", "Z">>
Lower == <<"a", "b", "c", "d", "e", "f", "g", "h", "i", "j", "k", "l", "m",
           "n", "o", "p", "q", "r", "s", "t", "u", "v", "w", "x", "y", "z">>

LowerChar(c) ==
    IF \E n \in 1..26 : Upper[n] = c
    THEN Lower[CHOOSE n \in 1..26 : Upper[n] = c]
    ELSE c

keep_case(s) == s

\* str::to_lowercase on ASCII text.
to_lowercase(s) == [n \in 1..Len(s) |-> LowerChar(s[n])]

\* ---------------------------------------------------- command vocabulary

PING == <<"p", "i", "n", "g">>
ECHO == <<"e", "c", "h", "o">>
GET == <<"g", "e", "t">>
SET == <<"s", "e", "t">>
EXISTS == <<"e", "x", "i", "s", "t", "s">>
DEL == <<"d", "e", "l">>
INCR == <<"i", "n", "c", "r">>
DECR == <<"d", "e", "c", "r">>
INCRBY == <<"i", "n", "c", "r", "b", "y">>
DECRBY == <<"d", "e", "c", "r", "b", "y">>

\* ------------------------------------------------------------------ errors

UnknownCommand(name) == [e |-> "UnknownCommand", name |-> name]
WrongNumberOfArgumentsUnnamed(name) == [e |-> "WrongNumberOfArguments", name |-> <<>>]
WrongNumberOfArguments(name) == [e |-> "WrongNumberOfArguments", name |-> name]
SyntaxError == [e |-> "SyntaxError", name |-> <<>>]
IntegerError == [e |-> "IntegerError", name |-> <<>>]
OverflowError == [e |-> "OverflowError", name |-> <<>>]

MSG_INTEGER == <<"v","a","l","u","e"," ","i","s"," ","n","o","t"," ","a","n"," ","i","n","t","e","g","e","r"," ","o","r"," ","o","u","t"," ","o","f"," ","r","a","n","g","e">>
MSG_OVERFLOW == <<"i","n","c","r","e","m","e","n","t"," ","o","r"," ","d","e","c","r","e","m","e","n","t"," ","w","o","u","l","d"," ","o","v","e","r","f","l","o","w">>
MSG_SYNTAX == <<"s","y","n","t","a","x"," ","e","r","r","o","r">>
MSG_UNKNOWN_PRE == <<"u","n","k","n","o","w","n"," ","c","o","m","m","a","n","d"," ","'">>
MSG_UNKNOWN_POST == <<"'">>
MSG_WRONG_PRE == <<"w","r","o","n","g"," ","n","u","m","b","e","r"," ","o","f"," ","a","r","g","u","m","e","n","t","s"," ","f","o","r"," ","'">>
MSG_WRONG_POST == <<"'"," ","c","o","m","m","a","n","d">>

\* Display for ClientError (thiserror's #[error(...)] texts).
error_to_string(err) ==
    CASE err.e = "UnknownCommand" -> MSG_UNKNOWN_PRE \o err.name \o MSG_UNKNOWN_POST
      [] err.e = "WrongNumberOfArguments" -> MSG_WRONG_PRE \o err.name \o MSG_WRONG_POST
      [] err.e = "SyntaxError" -> MSG_SYNTAX
      [] err.e = "IntegerError" -> MSG_INTEGER
      [] err.e = "OverflowError" -> MSG_OVERFLOW

\* Result<T, ClientError>
Ok(v) == [ok |-> TRUE, v |-> v]
Err(err) == [ok |-> FALSE, err |-> err]

\* ----------------------------------------------------------------- replies

Null == [t |-> "Null", s |-> <<>>]
SimpleString(s) == [t |-> "SimpleString", s |-> s]
BulkString(s) == [t |-> "BulkString", s |-> s]
Integer(s) == [t |-> "Integer", s |-> s]
SimpleError(s) == [t |-> "SimpleError", s |-> s]

PONG == <<"P", "O", "N", "G">>
OK == <<"O", "K">>

\* ---------------------------------------------------------------- keyspace

ValueInteger(i) == [tag |-> "Integer", i |-> i, s |-> <<>>]
ValueString(s) == [tag |-> "String", i |-> 0, s |-> s]

\* Display for Value.
value_to_string(v) == IF v.tag = "Integer" THEN i64_to_string(v.i) ELSE v.s

\* Object::new
Object(value, expiration) == [value |-> value, expiration |-> expiration]

Entry(k, o) == [key |-> k, obj |-> o]

\* IndexMap: a sequence of entries in insertion order, one per key.
IndexOf(map, k) ==
    IF \E n \in 1..Len(map) : map[n].key = k
    THEN CHOOSE n \in 1..Len(map) : map[n].key = k
    ELSE 0

contains_key(map, k) == IndexOf(map, k) # 0

\* IndexMap::get
get(map, k) == IF contains_key(map, k) THEN Some(map[IndexOf(map, k)].obj) ELSE None

\* IndexMap::insert: replaces the value in place, or appends a new entry.
insert(map, k, o) ==
    IF contains_key(map, k)
    THEN [map EXCEPT ![IndexOf(map, k)] = Entry(k, o)]
    ELSE Append(map, Entry(k, o))

truncating_remove(map, k) ==
    IF ~contains_key(map, k) THEN map ELSE SubSeq(map, 1, IndexOf(map, k) - 1)

\* IndexMap::swap_remove: the last entry takes the removed entry's place.
swap_remove(map, k) ==
    LET n == IndexOf(map, k)
        front == SubSeq(map, 1, Len(map) - 1)
    IN  IF n = 0 THEN map
        ELSE IF n = Len(map) THEN front
        ELSE [front EXCEPT ![n] = map[Len(map)]]

\* IndexMap::get_index, on a position counted from 0.
get_index(map, n) == IF n < Len(map) THEN Some(map[n + 1]) ELSE None

KeysOf(map) == {map[n].key : n \in 1..Len(map)}

\* ------------------------------------------------------------------ expiry

\* Object::is_expired, the check of the lazy path.
is_expired(obj, t) == IsSome(obj.expiration) /\ Unwrap(obj.expiration) <= t

ExpirationStatusSwapped(object, t) ==
    IF object = None THEN "NotExist"
    ELSE IF Unwrap(object).expiration = None THEN "NotExpired"
    ELSE IF t > Unwrap(Unwrap(object).expiration) THEN "NotExpired"
    ELSE "Expired"

\* ExpirationStatus::get: exp.duration_since(now) fails when now is later than exp.
ExpirationStatus(object, t) ==
    IF object = None THEN "NotExist"
    ELSE IF Unwrap(object).expiration = None THEN "NotExpired"
    ELSE IF t > Unwrap(Unwrap(object).expiration) THEN "Expired"
    ELSE "NotExpired"

\* The latest instant SystemTime can hold: i64 seconds and a fraction below one.
SystemTimeMax == I64_MAX * MillisPerSec + (MillisPerSec - 1)

unchecked_add_time(t, d) == Some(t + d)

\* SystemTime::checked_add
checked_add_time(t, d) == IF t + d <= SystemTimeMax THEN Some(t + d) ELSE None

\* ------------------------------------------------------- numeric executor

\* i64::checked_add and i64::checked_sub
checked_add(a, b) == IF a + b \in I64 THEN Some(a + b) ELSE None
checked_sub(a, b) == IF a - b \in I64 THEN Some(a - b) ELSE None

\* What -x yields when the build does not check overflow: two's complement.
wrapping_neg(x) == (((-x) - I64_MIN) % (2 ^ Bits)) + I64_MIN

\* execution::Integer, the four numeric operations.
OpIncr == [t |-> "Incr", v |-> 0]
OpDecr == [t |-> "Decr", v |-> 0]
OpIncrBy(v) == [t |-> "IncrBy", v |-> v]
OpDecrBy(v) == [t |-> "DecrBy", v |-> v]

\* Integer::operation evaluates v.neg() for DecrBy(v) before anything else:
\* with overflow checks (the dev profile) that aborts for i64::MIN.
operation_panics(op, checks) == checks /\ op.t = "DecrBy" /\ op.v = I64_MIN

initial_value_not_negated(op) ==
    CASE op.t = "Incr" -> 1
      [] op.t = "Decr" -> -1
      [] op.t = "IncrBy" -> op.v
      [] op.t = "DecrBy" -> op.v

\* Integer::operation, first component: the value stored for a missing key.
initial_value(op) ==
    CASE op.t = "Incr" -> 1
      [] op.t = "Decr" -> -1
      [] op.t = "IncrBy" -> op.v
      [] op.t = "DecrBy" -> wrapping_neg(op.v)

\* Integer::operation, second component: the checked closure.
operation(op, i) ==
    CASE op.t = "Incr" -> checked_add(i, 1)
      [] op.t = "Decr" -> checked_sub(i, 1)
      [] op.t = "IncrBy" -> checked_add(i, op.v)
      [] op.t = "DecrBy" -> checked_sub(i, op.v)

dropped_expiration(obj) == None

\* The expiry Integer::execute stores with an updated value.
kept_expiration(obj) == obj.expiration

integer_arm_stores_first(map, op, key, obj) ==
    LET r == operation(op, obj.value.i)
        wrapped == IF r = None THEN I64_MIN ELSE Unwrap(r)
        stored == insert(map, key, Object(ValueInteger(wrapped), kept_expiration(obj)))
    IN  IF r = None
        THEN [map |-> stored, res |-> Err(OverflowError)]
        ELSE [map |-> stored, res |-> Ok(Unwrap(r))]

\* Integer::execute, the arm of a live Integer: the checked operation, and
\* only when it succeeds the insert of the new value with the old expiry.
integer_arm(map, op, key, obj) ==
    LET r == operation(op, obj.value.i)
    IN  IF r = None
        THEN [map |-> map, res |-> Err(OverflowError)]
        ELSE [map |-> insert(map, key,
                         Object(ValueInteger(Unwrap(r)), kept_expiration(obj))),
              res |-> Ok(Unwrap(r))]

\* Integer::execute from the match on: found is what map.get(&key) returned.
IntegerMatch(map, found, op, key, t) ==
    LET fresh == Object(ValueInteger(initial_value(op)), None)
    IN  IF found = None
        THEN [map |-> insert(map, key, fresh), res |-> Ok(initial_value(op))]
        ELSE IF is_expired(Unwrap(found), t)
        THEN [map |-> insert(swap_remove(map, key), key, fresh),
              res |-> Ok(initial_value(op))]
        ELSE IF Unwrap(found).value.tag = "Integer"
        THEN integer_arm(map, op, key, Unwrap(found))
        ELSE [map |-> map, res |-> Err(IntegerError)]

\* Integer::execute once operation() has returned: the map and the result.
IntegerExecute(map, op, key, t) == IntegerMatch(map, get(map, key), op, key, t)

\* --------------------------------------------------------------- SET parser

ExpirationTryFromOptionFirst(option, value, t) ==
    LET n == ParseU64(value)
        opt == to_lowercase(option)
        desired ==
            CASE opt = <<"e", "x">> -> checked_add_time(t, Unwrap(n) * MillisPerSec)
              [] opt = <<"p", "x">> -> checked_add_time(t, Unwrap(n))
              [] opt = <<"e", "x", "a", "t">> -> checked_add_time(0, Unwrap(n) * MillisPerSec)
              [] opt = <<"p", "x", "a", "t">> -> checked_add_time(0, Unwrap(n))
              [] OTHER -> None
    IN  IF opt \notin {<<"e", "x">>, <<"p", "x">>,
                       <<"e", "x", "a", "t">>, <<"p", "x", "a", "t">>}
        THEN Err(SyntaxError)
        ELSE IF n = None THEN Err(IntegerError)
        ELSE IF desired = None THEN Err(IntegerError)
        ELSE Ok(Unwrap(desired))

\* TryFrom<(String, String)> for Expiration: the integer first, then the option.
ExpirationTryFrom(option, value, t) ==
    LET n == ParseU64(value)
        opt == to_lowercase(option)
        desired ==
            CASE opt = <<"e", "x">> -> checked_add_time(t, Unwrap(n) * MillisPerSec)
              [] opt = <<"p", "x">> -> checked_add_time(t, Unwrap(n))
              [] opt = <<"e", "x", "a", "t">> -> checked_add_time(0, Unwrap(n) * MillisPerSec)
              [] opt = <<"p", "x", "a", "t">> -> checked_add_time(0, Unwrap(n))
              [] OTHER -> None
    IN  IF n = None THEN Err(IntegerError)
        ELSE IF opt \notin {<<"e", "x">>, <<"p", "x">>,
                            <<"e", "x", "a", "t">>, <<"p", "x", "a", "t">>}
        THEN Err(SyntaxError)
        ELSE IF desired = None THEN Err(IntegerError)
        ELSE Ok(Unwrap(desired))

SetParseIgnoringExtra(params, t) ==
    IF Len(params) < 2 THEN Err(WrongNumberOfArguments(SET))
    ELSE IF Len(params) = 4
    THEN LET exp == ExpirationTryFrom(params[3], params[4], t)
         IN  IF exp.ok
             THEN Ok([c |-> "Set", key |-> params[1],
                      value |-> ValueString(params[2]), expiration |-> Some(exp.v)])
             ELSE exp
    ELSE Ok([c |-> "Set", key |-> params[1],
             value |-> ValueString(params[2]), expiration |-> None])

\* Set::parse, on the arguments after the command name.
SetParse(params, t) ==
    IF Len(params) < 2 THEN Err(WrongNumberOfArguments(SET))
    ELSE IF Len(params) = 3 \/ Len(params) > 4 THEN Err(SyntaxError)
    ELSE IF Len(params) = 4
    THEN LET exp == ExpirationTryFrom(params[3], params[4], t)
         IN  IF exp.ok
             THEN Ok([c |-> "Set", key |-> params[1],
                      value |-> ValueString(params[2]), expiration |-> Some(exp.v)])
             ELSE exp
    ELSE Ok([c |-> "Set", key |-> params[1],
             value |-> ValueString(params[2]), expiration |-> None])

\* parser::arithmetic::Integer::parse, on the arguments after the command name.
IntegerParse(params) ==
    IF Len(params) # 2 THEN Err(WrongNumberOfArguments(INCRBY))
    ELSE IF ParseI64(params[2]) = None THEN Err(IntegerError)
    ELSE Ok([key |-> params[1], value |-> Unwrap(ParseI64(params[2]))])

\* ------------------------------------------------------------ Request model

\* The INCRBY and DECRBY arms of Request::try_from: the parsed key and delta
\* become the request, a parser error is passed on.
NumericTryFrom(c, args) ==
    LET p == IntegerParse(args)
    IN  IF p.ok
        THEN Ok([c |-> IF c = INCRBY THEN "IncrBy" ELSE "DecrBy",
                 key |-> p.v.key, v |-> p.v.value])
        ELSE p

\* TryFrom<Vec<String>> for Request.
RequestTryFrom(params, t) ==
    IF params = <<>> THEN Err(UnknownCommand(<<>>))
    ELSE LET c == to_lowercase(params[1])
             n == Len(params)
         IN  CASE c = PING ->
                    IF n > 2 THEN Err(WrongNumberOfArguments(PING))
                    ELSE Ok([c |-> "Ping",
                             arg |-> IF n = 2 THEN Some(params[2]) ELSE None])
               [] c = ECHO ->
                    IF n # 2 THEN Err(WrongNumberOfArguments(ECHO))
                    ELSE Ok([c |-> "Echo", arg |-> params[2]])
               [] c = SET ->
                    IF n = 1 THEN Err(WrongNumberOfArguments(SET))
                    ELSE SetParse(Tail(params), t)
               [] c = GET ->
                    IF n # 2 THEN Err(WrongNumberOfArguments(GET))
                    ELSE Ok([c |-> "Get", key |-> params[2]])
               [] c = EXISTS ->
                    IF n < 2 THEN Err(WrongNumberOfArguments(EXISTS))
                    ELSE Ok([c |-> "Exists", keys |-> Tail(params)])
               [] c = DEL ->
                    IF n < 2 THEN Err(WrongNumberOfArguments(DEL))
                    ELSE Ok([c |-> "Del", keys |-> Tail(params)])
               [] c = INCR ->
                    IF n # 2 THEN Err(WrongNumberOfArguments(INCR))
                    ELSE Ok([c |-> "Incr", key |-> params[2]])
               [] c = DECR ->
                    IF n # 2 THEN Err(WrongNumberOfArguments(DECR))
                    ELSE Ok([c |-> "Decr", key |-> params[2]])
               [] c = INCRBY \/ c = DECRBY -> NumericTryFrom(c, Tail(params))
               [] OTHER -> Err(UnknownCommand(c))

\* Request::execute, Get arm.
ExecuteGet(map, key, t) ==
    LET found == get(map, key)
    IN  IF found = None THEN [map |-> map, reply |-> Null]
        ELSE IF is_expired(Unwrap(found), t)
        THEN [map |-> swap_remove(map, key), reply |-> Null]
        ELSE [map |-> map, reply |-> BulkString(value_to_string(Unwrap(found).value))]

\* The expiry Request::execute stores for a SET.
set_expiration(set) == set.expiration

\* Request::execute, Set arm.
ExecuteSet(map, set) ==
    [map |-> insert(map, set.key, Object(set.value, set_expiration(set))),
     reply |-> SimpleString(OK)]

\* Request::execute, Exists arm: the loop over the listed keys.
RECURSIVE ExistsLoop(_, _, _, _)
ExistsLoop(map, keys, existing_keys, t) ==
    IF keys = <<>> THEN [map |-> map, count |-> existing_keys]
    ELSE LET found == get(map, Head(keys))
         IN  IF found = None
             THEN ExistsLoop(map, Tail(keys), existing_keys, t)
             ELSE IF is_expired(Unwrap(found), t)
             THEN ExistsLoop(swap_remove(map, Head(keys)), Tail(keys), existing_keys, t)
             ELSE ExistsLoop(map, Tail(keys), existing_keys + 1, t)

ExecuteExists(map, keys, t) ==
    LET r == ExistsLoop(map, keys, 0, t)
    IN  [map |-> r.map, reply |-> Integer(NatToString(r.count))]

\* Request::execute, Del arm: the loop over the listed keys.
RECURSIVE DelLoop(_, _, _)
DelLoop(map, keys, deleted_keys) ==
    IF keys = <<>> THEN [map |-> map, count |-> deleted_keys]
    ELSE IF contains_key(map, Head(keys))
    THEN DelLoop(swap_remove(map, Head(keys)), Tail(keys), deleted_keys + 1)
    ELSE DelLoop(map, Tail(keys), deleted_keys)

ExecuteDel(map, keys) ==
    LET r == DelLoop(map, keys, 0)
    IN  [map |-> r.map, reply |-> Integer(NatToString(r.count))]

\* Request::execute, Incr and Decr arms (the inline handlers): sign is 1 or -1.
ExecuteIncrDecr(map, key, sign, t) ==
    LET found == get(map, key)
        fresh == Object(ValueInteger(sign), None)
    IN  IF found = None
        THEN [map |-> insert(map, key, fresh), reply |-> Integer(i64_to_string(sign))]
        ELSE IF is_expired(Unwrap(found), t)
        THEN [map |-> insert(swap_remove(map, key), key, fresh),
              reply |-> Integer(i64_to_string(sign))]
        ELSE IF Unwrap(found).value.tag = "Integer"
        THEN LET r == IF sign = 1 THEN checked_add(Unwrap(found).value.i, 1)
                      ELSE checked_sub(Unwrap(found).value.i, 1)
             IN  IF r = None
                 THEN [map |-> map, reply |-> SimpleError(error_to_string(OverflowError))]
                 ELSE [map |-> insert(map, key,
                                  Object(ValueInteger(Unwrap(r)), Unwrap(found).expiration)),
                       reply |-> Integer(i64_to_string(Unwrap(r)))]
        ELSE [map |-> map, reply |-> SimpleError(error_to_string(IntegerError))]

\* The reply made of the shared executor's Result<i64, ClientError>.
ResultReply(res) ==
    IF res.ok THEN Integer(i64_to_string(res.v))
    ELSE SimpleError(error_to_string(res.err))

\* The shared numeric executor behind a request, as a map and a reply.
ExecuteNumeric(map, op, key, t) ==
    LET r == IntegerExecute(map, op, key, t)
    IN  [map |-> r.map, reply |-> ResultReply(r.res)]

\* The numeric operation a request stands for.
RequestOp(req) ==
    CASE req.c = "Incr" -> OpIncr
      [] req.c = "Decr" -> OpDecr
      [] req.c = "IncrBy" -> OpIncrBy(req.v)
      [] req.c = "DecrBy" -> OpDecrBy(req.v)

\* Whether the request's handler takes the keyspace lock.
TouchesStore(req) == req.c \notin {"Ping", "Echo"}

\* Request::execute. INCR and DECR run the inline handler or, when shared,
\* the shared numeric executor, as INCRBY and DECRBY always do.
RequestExecute(map, req, shared, t) ==
    CASE req.c = "Ping" ->
            [map |-> map,
             reply |-> IF req.arg = None THEN SimpleString(PONG)
                       ELSE BulkString(Unwrap(req.arg))]
      [] req.c = "Echo" -> [map |-> map, reply |-> BulkString(req.arg)]
      [] req.c = "Set" -> ExecuteSet(map, req)
      [] req.c = "Get" -> ExecuteGet(map, req.key, t)
      [] req.c = "Exists" -> ExecuteExists(map, req.keys, t)
      [] req.c = "Del" -> ExecuteDel(map, req.keys)
      [] req.c \in {"Incr", "Decr"} /\ ~shared ->
            ExecuteIncrDecr(map, req.key, IF req.c = "Incr" THEN 1 ELSE -1, t)
      [] OTHER -> ExecuteNumeric(map, RequestOp(req), req.key, t)

\* ------------------------------------------------------------------ reaper

Min(a, b) == IF a < b THEN a ELSE b

sample_with_replacement(length, amount) == [1..amount -> 0..(length - 1)]

\* rand::seq::index::sample(rng, length, amount): every sequence of amount
\* pairwise distinct positions of 0..length-1 is a possible draw.
sample(length, amount) ==
    {ix \in [1..amount -> 0..(length - 1)] :
        \A a, b \in 1..amount : a # b => ix[a] # ix[b]}

\* remove_expired_entries, the loop collecting the keys of the expired entries.
RECURSIVE CollectExpired(_, _, _)
CollectExpired(map, indexes, t) ==
    IF indexes = <<>> THEN <<>>
    ELSE LET e == get_index(map, Head(indexes))
             rest == CollectExpired(map, Tail(indexes), t)
         IN  IF e # None /\ ExpirationStatus(Some(Unwrap(e).obj), t) = "Expired"
             THEN <<Unwrap(e).key>> \o rest
             ELSE rest

\* remove_expired_entries, the loop removing the collected keys.
RECURSIVE RemoveKeys(_, _)
RemoveKeys(map, keys) ==
    IF keys = <<>> THEN map
    ELSE RemoveKeys(swap_remove(map, Head(keys)), Tail(keys))

\* remove_expired_entries with the drawn indexes: the map left, and the ratio
\* returned as the pair removed / sampled (0 / 0 stands for the 0.0 of an empty map).
remove_expired_entries(map, sample_size, indexes, t) ==
    IF map = <<>> THEN [map |-> map, removed |-> 0, sampled |-> 0]
    ELSE LET keys == CollectExpired(map, indexes, t)
         IN  [map |-> RemoveKeys(map, keys),
              removed |-> Len(keys),
              sampled |-> Min(sample_size, Len(map))]

\* -------------------------------------------------------- connection driver

\* No frame is written: the connection's task ended in a panic.
Aborted == [t |-> "Aborted", s |-> <<>>]

\* Whether the request runs the shared numeric executor.
RunsShared(r, shared) == r.c \in {"IncrBy", "DecrBy"} \/ (r.c \in {"Incr", "Decr"} /\ shared)

\* Whether db.lock().unwrap() lets the handler in.
lock_unwrap_ok(psn) == ~psn

may_lock_unguarded(g) == TRUE

\* Whether Mutex::lock returns: it blocks while another task holds the guard.
may_lock(g) == g = None

temporary_guard(g) == None

\* The guard after a statement of the handler: `map` is a local binding, so
\* the guard lives to the end of the function.
held_guard(g) == g

\* The connection driver on one request r, as Request::try_from returned it:
\* the error reply, or Request::execute under the keyspace mutex. A panic
\* while the guard is held unwinds through it and poisons the mutex.
Serve(map, psn, r, shared, t, checks) ==
    IF ~r.ok
    THEN [map |-> map, poisoned |-> psn, reply |-> SimpleError(error_to_string(r.err))]
    ELSE IF TouchesStore(r.v) /\ ~lock_unwrap_ok(psn)
    THEN [map |-> map, poisoned |-> psn, reply |-> Aborted]
    ELSE IF RunsShared(r.v, shared) /\ operation_panics(RequestOp(r.v), checks)
    THEN [map |-> map, poisoned |-> TRUE, reply |-> Aborted]
    ELSE LET out == RequestExecute(map, r.v, shared, t)
         IN  [map |-> out.map, poisoned |-> psn, reply |-> out.reply]

\* -------------------------------------------------------------- wire codec

\* Width of the modelled u32 of array counts and bulk string lengths.
LenBits == 4

U32_MAX == (2 ^ LenBits) - 1

ARRAY_TYPE == "*"
BULK_STRING_TYPE == "$"
ERROR_TYPE == "-"
INTEGER_TYPE == ":"
NULL_TYPE == "_"
SIMPLE_STRING_TYPE == "+"
CR == "\r"
LF == "\n"

\* A byte is a one-character string when it is ASCII; 0xC3 0xA9 are the two
\* bytes of the one character U+00E9 in UTF-8.
BYTE_C3 == "0xC3"
BYTE_A9 == "0xA9"
E_ACUTE == "U+00E9"

\* str::as_bytes: the UTF-8 bytes of a text.
RECURSIVE as_bytes(_)
as_bytes(s) ==
    IF s = <<>> THEN <<>>
    ELSE (IF Head(s) = E_ACUTE THEN <<BYTE_C3, BYTE_A9>> ELSE <<Head(s)>>)
         \o as_bytes(Tail(s))

\* The number of characters of a text.
chars_len(s) == Len(s)

\* String::len: the length in bytes.
string_len(s) == Len(as_bytes(s))

\* str::from_utf8: the text of a byte string, None when it is not UTF-8.
RECURSIVE from_utf8(_)
from_utf8(bytes) ==
    IF bytes = <<>> THEN Some(<<>>)
    ELSE IF bytes[1] = BYTE_C3
    THEN IF Len(bytes) >= 2 /\ bytes[2] = BYTE_A9
         THEN LET rest == from_utf8(SubSeq(bytes, 3, Len(bytes)))
              IN  IF IsSome(rest) THEN Some(<<E_ACUTE>> \o Unwrap(rest)) ELSE None
         ELSE None
    ELSE IF bytes[1] = BYTE_A9 THEN None
    ELSE LET rest == from_utf8(Tail(bytes))
         IN  IF IsSome(rest) THEN Some(<<bytes[1]>> \o Unwrap(rest)) ELSE None

\* str::parse::<u32>: an optional '+', then digits; out of range is an error.
ParseU32(s) ==
    LET signed == s # <<>> /\ s[1] = "+"
        body == IF signed THEN Tail(s) ELSE s
        v == DigitsToNat(body)
    IN  IF AllDigits(body) /\ v <= U32_MAX THEN Some(v) ELSE None

\* get_u32_from_string: text that is not UTF-8 parses as the empty string.
get_u32_from_string(s) ==
    LET text == from_utf8(s)
    IN  ParseU32(IF IsSome(text) THEN Unwrap(text) ELSE <<>>)

InvalidStartOfMsg == "InvalidStartOfMsg"
MalformedArray == "MalformedArray"
BulkStringExpected == "BulkStringExpected"
MalformedBulkString == "MalformedBulkString"
CrLfNotFound == "CrLfNotFound"

\* Not a DeserializeError: an index or a range outside the slice, or a usize
\* subtraction below zero, panics and the decoder returns nothing.
IndexPanic == "IndexPanic"

MSG_INVALID_START == <<"m","e","s","s","a","g","e"," ","m","u","s","t"," ","b","e"," ","a","n"," ","a","r","r","a","y">>
MSG_MALFORMED_ARRAY == <<"i","n","v","a","l","i","d"," ","a","r","r","a","y">>
MSG_BULK_EXPECTED == <<"b","u","l","k"," ","s","t","r","i","n","g"," ","e","x","p","e","c","t","e","d">>
MSG_MALFORMED_BULK == <<"m","a","l","f","o","r","m","e","d"," ","b","u","l","k"," ","s","t","r","i","n","g">>

\* Display for DeserializeError.
deserialize_error_to_string(err) ==
    CASE err = InvalidStartOfMsg -> MSG_INVALID_START
      [] err = MalformedArray -> MSG_MALFORMED_ARRAY
      [] err = BulkStringExpected -> MSG_BULK_EXPECTED
      [] err = MalformedBulkString -> MSG_MALFORMED_BULK

\* Deserializer::default(); positions count from 0 as in the code.
DeserializerDefault == [cursor |-> 0, cr_pos |-> 0, lf_pos |-> 0]

\* <[u8]>::get(i)
msg_get(msg, i) == IF i < Len(msg) THEN Some(msg[i + 1]) ELSE None

\* &msg[a..b]
slice(msg, a, b) == SubSeq(msg, a + 1, b)

\* &msg[a..b] panics when the range is reversed or ends past the slice.
slice_panics(msg, a, b) == a > b \/ b > Len(msg)

update_cr_lf_from_start(d, msg) ==
    LET hits == {c \in 0..(Len(msg) - 2) : msg[c + 1] = CR /\ msg[c + 2] = LF}
    IN  IF Len(msg) = 0 THEN Err(IndexPanic)
        ELSE IF hits = {}
        THEN Err(CrLfNotFound)
        ELSE LET c == CHOOSE x \in hits : \A y \in hits : x <= y
             IN  Ok([d EXCEPT !.cr_pos = c, !.lf_pos = c + 1])

\* update_cr_lf: the first CR LF at or after the cursor, found with a local
\* cursor: the deserializer's own cursor stays where it was. msg.len() - 1
\* needs a slice that is not empty; the reads of the loop stay below it.
update_cr_lf(d, msg) ==
    LET hits == {c \in d.cursor..(Len(msg) - 2) : msg[c + 1] = CR /\ msg[c + 2] = LF}
    IN  IF Len(msg) = 0 THEN Err(IndexPanic)
        ELSE IF hits = {}
        THEN Err(CrLfNotFound)
        ELSE LET c == CHOOSE x \in hits : \A y \in hits : x <= y
             IN  Ok([d EXCEPT !.cr_pos = c, !.lf_pos = c + 1])

check_bulk_string_type(d, msg) ==
    LET d1 == [d EXCEPT !.cursor = d.lf_pos + 1]
    IN  IF msg_get(msg, d1.cursor) = None THEN Err(MalformedBulkString)
        ELSE IF msg[d1.cursor + 1] # BULK_STRING_TYPE THEN Err(BulkStringExpected)
        ELSE Ok(d1)

extract_bulk_string(d, msg) ==
    LET d1 == [d EXCEPT !.cursor = d.cursor + 1]
        found == update_cr_lf(d1, msg)
    IN  IF ~found.ok
        THEN Err(IF found.err = IndexPanic THEN IndexPanic ELSE MalformedBulkString)
        ELSE IF slice_panics(msg, found.v.cursor, found.v.cr_pos) THEN Err(IndexPanic)
        ELSE
        LET d2 == found.v
            bulk_string_size == get_u32_from_string(slice(msg, d2.cursor, d2.cr_pos))
        IN  IF bulk_string_size = None THEN Err(MalformedBulkString)
            ELSE
            LET size == Unwrap(bulk_string_size)
                d3 == [d2 EXCEPT !.cursor = d2.lf_pos + 1]
            IN  IF msg_get(msg, d3.cursor) = None \/ Len(msg) - d3.cursor < size
                THEN Err(MalformedBulkString)
                ELSE IF slice_panics(msg, d3.cursor, d3.cursor + size) THEN Err(IndexPanic)
                ELSE
                LET bulk_string == from_utf8(slice(msg, d3.cursor, d3.cursor + size))
                IN  IF bulk_string = None THEN Err(MalformedBulkString)
                    ELSE Ok([d |-> d3, bulk_string |-> Unwrap(bulk_string), size |-> size])

jump_to_lf(d, msg, bulk_string_size) ==
    LET d1 == [d EXCEPT !.cursor = d.cursor + bulk_string_size]
        d2 == [d1 EXCEPT !.cursor = d1.cursor + 1]
    IN  IF msg_get(msg, d1.cursor) # Some(CR) THEN Err(MalformedBulkString)
        ELSE IF msg_get(msg, d2.cursor) # Some(LF) THEN Err(MalformedBulkString)
        ELSE Ok([d2 EXCEPT !.lf_pos = d2.cursor])

\* The for loop of deserialize_msg: array_size bulk strings, one after another.
RECURSIVE bulk_strings(_, _, _, _)
bulk_strings(d, msg, array_size, params) ==
    IF array_size = 0 THEN Ok([d |-> d, params |-> params])
    ELSE
    LET checked == check_bulk_string_type(d, msg)
    IN  IF ~checked.ok THEN checked
        ELSE
        LET extracted == extract_bulk_string(checked.v, msg)
        IN  IF ~extracted.ok THEN extracted
            ELSE
            LET jumped == jump_to_lf(extracted.v.d, msg, extracted.v.size)
            IN  IF ~jumped.ok THEN jumped
                ELSE bulk_strings(jumped.v, msg, array_size - 1,
                                  Append(params, extracted.v.bulk_string))

\* Deserializer::deserialize_msg on a fresh deserializer.
deserialize_msg(msg) ==
    LET d0 == DeserializerDefault
    IN  IF msg_get(msg, d0.cursor) # Some(ARRAY_TYPE) THEN Err(InvalidStartOfMsg)
        ELSE
        LET d1 == [d0 EXCEPT !.cursor = d0.cursor + 1]
            found == update_cr_lf(d1, msg)
        IN  IF ~found.ok
            THEN Err(IF found.err = IndexPanic THEN IndexPanic ELSE MalformedArray)
            ELSE IF slice_panics(msg, found.v.cursor, found.v.cr_pos) THEN Err(IndexPanic)
            ELSE
            LET array_size == get_u32_from_string(slice(msg, found.v.cursor, found.v.cr_pos))
            IN  IF array_size = None THEN Err(MalformedArray)
                ELSE
                LET elements == bulk_strings(found.v, msg, Unwrap(array_size), <<>>)
                IN  IF ~elements.ok THEN elements
                    ELSE
                    LET d2 == [elements.v.d EXCEPT !.cursor = elements.v.d.cursor + 1]
                    IN  IF msg_get(msg, d2.cursor) # None THEN Err(MalformedArray)
                        ELSE Ok(elements.v.params)

\* Response::serialize
serialize(reply) ==
    CASE reply.t = "Null" -> <<NULL_TYPE, CR, LF>>
      [] reply.t = "SimpleString" -> <<SIMPLE_STRING_TYPE>> \o as_bytes(reply.s) \o <<CR, LF>>
      [] reply.t = "Integer" -> <<INTEGER_TYPE>> \o as_bytes(reply.s) \o <<CR, LF>>
      [] reply.t = "SimpleError" -> <<ERROR_TYPE>> \o as_bytes(reply.s) \o <<CR, LF>>
      [] reply.t = "BulkString" ->
            <<BULK_STRING_TYPE>> \o as_bytes(NatToString(string_len(reply.s))) \o <<CR, LF>>
            \o as_bytes(reply.s) \o <<CR, LF>>

\* ------------------------------------------------------------------- state

VARIABLES
    db,               \* the keyspace behind the mutex
    now,              \* SystemTime::now()
    overflow_checks,  \* whether the build checks arithmetic overflow (dev profile)
    poisoned,         \* whether a task panicked while holding the mutex
    last,             \* the last step taken: its kind, request and result
    pc,               \* ConcSpec: where each task stands in its handler
    guard,            \* ConcSpec: the task holding the MutexGuard, if any
    locals,           \* ConcSpec: each task's local bindings
    ndone,            \* ConcSpec: the number of commands each connection completed
    applied,          \* ConcSpec: the exact sum of the deltas applied (history)
    overflow,         \* ConcSpec: whether an exact result left the i64 range (history)
    buf,              \* the byte slices a connection has read, one per read
    des,              \* what deserialize_msg returned for the last slice, if it ran
    cmd,              \* what Request::try_from returned for the last slice, if it ran
    pending,          \* the reply that is built and not yet written
    sent,             \* the byte strings written to the socket, in order
    task              \* the connection's task: reading, writing, closed or panicked

conc == <<pc, guard, locals, ndone, applied, overflow>>
wire == <<buf, des, cmd, pending, sent, task>>
vars == <<db, now, overflow_checks, poisoned, last, conc, wire>>

NoRatio == [removed |-> 0, sampled |-> 0]

\* How a key stands in the map at instant t, as the lazy path sees it.
KeyState(map, k, t) ==
    IF get(map, k) = None THEN "absent"
    ELSE IF is_expired(Unwrap(get(map, k)), t) THEN "expired"
    ELSE Unwrap(get(map, k)).value.tag

\* The command of a request ("none" when Request::try_from refused it).
CommandOf(r) == IF r.ok THEN r.v.c ELSE "none"

\* The first key a request names (the empty text when it names none).
KeyOf(r) ==
    IF ~r.ok \/ r.v.c \in {"Ping", "Echo"} THEN <<>>
    ELSE IF r.v.c \in {"Exists", "Del"} THEN Head(r.v.keys)
    ELSE r.v.key

\* The record of a step: for a command its name, first key, how that key
\* stood before it, and the reply; for a reaper pass the ratio it returned.
LastCommand(map, r, t, rep) ==
    [step |-> "cmd", c |-> CommandOf(r), key |-> KeyOf(r),
     pre |-> IF KeyOf(r) = <<>> THEN "none" ELSE KeyState(map, KeyOf(r), t),
     reply |-> rep, ratio |-> NoRatio]
LastReap(rt) ==
    [step |-> "reap", c |-> "none", key |-> <<>>, pre |-> "none", reply |-> Null, ratio |-> rt]
LastOther(kind) ==
    [step |-> kind, c |-> "none", key |-> <<>>, pre |-> "none", reply |-> Null, ratio |-> NoRatio]

\* ------------------------------------------------------------------ inputs

K == <<"k">>
J == <<"j">>
Keys == {K, J}
FOO == <<"f", "o", "o">>
Values == {FOO, <<"2">>}

Times == StartTime..(StartTime + MaxTicks)

\* Keyspaces the repository's tests build by inserting objects directly: an
\* Integer that carries an expiry, later than now or already past.
Fixtures ==
    {<<>>,
     <<Entry(K, Object(ValueInteger(1), Some(StartTime + 1)))>>,
     <<Entry(K, Object(ValueInteger(0), Some(StartTime - 1)))>>}

DeltaTokens == {i64_to_string(d) : d \in I64} \cup {i64_to_string(I64_MAX + 1), <<"x">>}

SetTails ==
    {<<>>,
     <<<<"P", "X">>, <<"1">>>>,
     <<<<"p", "x", "a", "t">>, <<"1">>>>,
     <<<<"e", "x">>>>,
     <<<<"e", "x">>, <<"x">>>>,
     <<<<"z", "z">>, <<"1">>>>,
     <<<<"e", "x">>, NatToString(U64_MAX)>>}

ParamVectors ==
    {<<PING>>, <<ECHO, <<"h", "i">>>>, <<FOO>>, <<GET>>}
    \cup {<<GET, k>> : k \in Keys}
    \cup {<<SET, K, v>> \o tail : v \in Values, tail \in SetTails}
    \cup {<<SET, J, FOO>>, <<SET, J, FOO, <<"p", "x">>, <<"1">>>>}
    \cup {<<EXISTS, k>> : k \in Keys}
    \cup {<<EXISTS, k1, k2>> : k1 \in Keys, k2 \in Keys}
    \cup {<<DEL, k>> : k \in Keys}
    \cup {<<DEL, k1, k2>> : k1 \in Keys, k2 \in Keys}
    \cup {<<c, k>> : c \in {INCR, <<"D", "e", "c", "r">>}, k \in Keys}
    \cup {<<c, K, d>> : c \in {INCRBY, DECRBY}, d \in DeltaTokens}

\* What Request::try_from makes of each input when it is called at instant t.
Parsed == [t \in Times |-> [params \in ParamVectors |-> RequestTryFrom(params, t)]]
Requests == [t \in Times |-> {Parsed[t][params] : params \in ParamVectors}]

\* INCR and DECR exist as inline handlers and in the shared executor.
Handlers(r) == IF r.ok /\ r.v.c \in {"Incr", "Decr"} THEN BOOLEAN ELSE {TRUE}

\* ------------------------------------------------------------------- tasks

Conns == {"c1", "c2"}
Reaper == "reaper"
Tasks == Conns \cup {Reaper}

NoLocals == [op |-> OpIncr, found |-> None, res |-> Ok(0), keys |-> <<>>]

\* The numeric commands the connections issue against the key K.
ConcOps == {OpIncr, OpDecr} \cup {OpIncrBy(d) : d \in I64} \cup {OpDecrBy(d) : d \in I64}

\* Between the lock and the drop of the guard.
InCritical(p) == p \notin {"idle", "dead"}

ConcIdle ==
    /\ pc = [t \in Tasks |-> "idle"]
    /\ guard = None
    /\ locals = [t \in Tasks |-> NoLocals]
    /\ ndone = [c \in Conns |-> 0]
    /\ applied = 0
    /\ overflow = FALSE

\* A connection that has read nothing yet.
WireIdle ==
    /\ buf = <<>>
    /\ des = None
    /\ cmd = None
    /\ pending = None
    /\ sent = <<>>
    /\ task = "reading"

\* ----------------------------------------------------------------- actions

Init ==
    /\ db \in Fixtures
    /\ now = StartTime
    /\ overflow_checks \in BOOLEAN
    /\ poisoned = FALSE
    /\ last = LastOther("init")
    /\ ConcIdle
    /\ WireIdle

\* One request served by a connection's task.
Handle(r, shared) ==
    LET out == Serve(db, poisoned, r, shared, now, overflow_checks)
    IN  /\ db' = out.map
        /\ poisoned' = out.poisoned
        /\ last' = LastCommand(db, r, now, out.reply)
        /\ UNCHANGED <<now, overflow_checks, conc, wire>>

\* One pass of the reaper, remove_expired_entries, with its drawn sample.
Reap(sample_size, indexes) ==
    /\ lock_unwrap_ok(poisoned)
    /\ LET out == remove_expired_entries(db, sample_size, indexes, now)
       IN  /\ db' = out.map
           /\ last' = LastReap([removed |-> out.removed, sampled |-> out.sampled])
    /\ UNCHANGED <<now, overflow_checks, poisoned, conc, wire>>

\* The wall clock advances.
Tick ==
    /\ now < StartTime + MaxTicks
    /\ now' = now + 1
    /\ last' = LastOther("tick")
    /\ UNCHANGED <<db, overflow_checks, poisoned, conc, wire>>

Command == \E r \in Requests[now] : \E shared \in Handlers(r) : Handle(r, shared)

ReaperPass ==
    \E sample_size \in 1..MaxSample :
        \E indexes \in sample(Len(db), Min(sample_size, Len(db))) :
            Reap(sample_size, indexes)

Next == Command \/ ReaperPass \/ Tick

Spec == Init /\ [][Next]_vars

\* ------------------------------------------- the handlers statement by statement

\* The exact (unbounded) delta a numeric operation stands for.
SignedDelta(op) ==
    CASE op.t = "Incr" -> 1
      [] op.t = "Decr" -> -1
      [] op.t = "IncrBy" -> op.v
      [] op.t = "DecrBy" -> 0 - op.v

\* The Integer stored under k, 0 when k is absent.
StoredInteger(map, k) ==
    IF get(map, k) = None THEN 0 ELSE Unwrap(get(map, k)).value.i

\* Two connections send numeric commands on K while the reaper runs; J holds
\* an entry that has expired.
ConcInit ==
    /\ db = <<Entry(J, Object(ValueString(FOO), Some(StartTime - 1)))>>
    /\ now = StartTime
    /\ overflow_checks \in BOOLEAN
    /\ poisoned = FALSE
    /\ last = LastOther("init")
    /\ ConcIdle
    /\ WireIdle

\* Integer::execute, `let mut map = db.lock().unwrap()`.
Acquire(c, op) ==
    /\ pc[c] = "idle"
    /\ ndone[c] < MaxOps
    /\ may_lock(guard)
    /\ IF lock_unwrap_ok(poisoned)
       THEN /\ guard' = Some(c)
            /\ pc' = [pc EXCEPT ![c] = "locked"]
            /\ locals' = [locals EXCEPT ![c] = [NoLocals EXCEPT !.op = op]]
       ELSE /\ pc' = [pc EXCEPT ![c] = "dead"]
            /\ UNCHANGED <<guard, locals>>
    /\ UNCHANGED <<db, now, overflow_checks, poisoned, last, ndone, applied, overflow, wire>>

\* Integer::execute, `let (initial_value, operation) = self.operation()`.
Operation(c) ==
    /\ pc[c] = "locked"
    /\ IF operation_panics(locals[c].op, overflow_checks)
       THEN /\ pc' = [pc EXCEPT ![c] = "dead"]
            /\ poisoned' = TRUE
            /\ guard' = None
            /\ overflow' = TRUE
       ELSE /\ pc' = [pc EXCEPT ![c] = "ready"]
            /\ guard' = held_guard(guard)
            /\ UNCHANGED <<poisoned, overflow>>
    /\ UNCHANGED <<db, now, overflow_checks, last, locals, ndone, applied, wire>>

\* Integer::execute, `match map.get(&key)`.
Lookup(c) ==
    /\ pc[c] = "ready"
    /\ pc' = [pc EXCEPT ![c] = "found"]
    /\ locals' = [locals EXCEPT ![c].found = get(db, K)]
    /\ guard' = held_guard(guard)
    /\ UNCHANGED <<db, now, overflow_checks, poisoned, last, ndone, applied, overflow, wire>>

\* Integer::execute, the matched arm: the arithmetic and the write-back.
WriteBack(c) ==
    /\ pc[c] = "found"
    /\ LET out == IntegerMatch(db, locals[c].found, locals[c].op, K, now)
           exact == applied + SignedDelta(locals[c].op)
       IN  /\ db' = out.map
           /\ locals' = [locals EXCEPT ![c].res = out.res]
           /\ applied' = IF out.res.ok THEN exact ELSE applied
           /\ overflow' = (overflow \/ exact \notin I64)
    /\ pc' = [pc EXCEPT ![c] = "written"]
    /\ guard' = held_guard(guard)
    /\ UNCHANGED <<now, overflow_checks, poisoned, last, ndone, wire>>

\* Integer::execute returns: the guard is dropped and the reply is written.
Release(c) ==
    /\ pc[c] = "written"
    /\ pc' = [pc EXCEPT ![c] = "idle"]
    /\ guard' = None
    /\ ndone' = [ndone EXCEPT ![c] = @ + 1]
    /\ locals' = [locals EXCEPT ![c] = NoLocals]
    /\ UNCHANGED <<db, now, overflow_checks, poisoned, last, applied, overflow, wire>>

\* remove_expired_entries, `let mut map = db.lock().unwrap()`.
ReaperAcquire ==
    /\ pc[Reaper] = "idle"
    /\ may_lock(guard)
    /\ IF lock_unwrap_ok(poisoned)
       THEN /\ guard' = Some(Reaper)
            /\ pc' = [pc EXCEPT ![Reaper] = "locked"]
       ELSE /\ pc' = [pc EXCEPT ![Reaper] = "dead"]
            /\ UNCHANGED guard
    /\ UNCHANGED <<db, now, overflow_checks, poisoned, last, locals, ndone, applied, overflow, wire>>

\* remove_expired_entries, the early return on an empty map, or the sample
\* and the loop collecting the expired keys.
ReaperCollect(sample_size, indexes) ==
    /\ pc[Reaper] = "locked"
    /\ IF db = <<>>
       THEN /\ pc' = [pc EXCEPT ![Reaper] = "idle"]
            /\ guard' = None
            /\ UNCHANGED locals
       ELSE /\ pc' = [pc EXCEPT ![Reaper] = "collected"]
            /\ guard' = held_guard(guard)
            /\ locals' = [locals EXCEPT ![Reaper].keys = CollectExpired(db, indexes, now)]
    /\ UNCHANGED <<db, now, overflow_checks, poisoned, last, ndone, applied, overflow, wire>>

\* remove_expired_entries, the loop removing the collected keys.
ReaperRemove ==
    /\ pc[Reaper] = "collected"
    /\ db' = RemoveKeys(db, locals[Reaper].keys)
    /\ pc' = [pc EXCEPT ![Reaper] = "removed"]
    /\ guard' = held_guard(guard)
    /\ UNCHANGED <<now, overflow_checks, poisoned, last, locals, ndone, applied, overflow, wire>>

\* remove_expired_entries returns: the guard is dropped.
ReaperRelease ==
    /\ pc[Reaper] = "removed"
    /\ pc' = [pc EXCEPT ![Reaper] = "idle"]
    /\ guard' = None
    /\ locals' = [locals EXCEPT ![Reaper] = NoLocals]
    /\ UNCHANGED <<db, now, overflow_checks, poisoned, last, ndone, applied, overflow, wire>>

ConnAcquire == \E c \in Conns : \E op \in ConcOps : Acquire(c, op)
ConnOperation == \E c \in Conns : Operation(c)
ConnLookup == \E c \in Conns : Lookup(c)
ConnWriteBack == \E c \in Conns : WriteBack(c)
ConnRelease == \E c \in Conns : Release(c)
ReaperSample ==
    \E sample_size \in 1..MaxSample :
        \E indexes \in sample(Len(db), Min(sample_size, Len(db))) :
            ReaperCollect(sample_size, indexes)

ConcNext ==
    \/ ConnAcquire
    \/ ConnOperation
    \/ ConnLookup
    \/ ConnWriteBack
    \/ ConnRelease
    \/ ReaperAcquire
    \/ ReaperSample
    \/ ReaperRemove
    \/ ReaperRelease

ConcSpec == ConcInit /\ [][ConcNext]_vars

\* ------------------------------------------------------- the reaper's loop

\* The reaper's stop threshold, in hundredths.
STOP_THRESHOLD == 25

\* The sample size the reaper is configured with.
ReaperSampleSize == 4

loop_again_at_threshold(ratio) == ratio.removed * 100 >= STOP_THRESHOLD * ratio.sampled

\* The reaper's decision after a pass: another pass when the ratio the pass
\* returned is above the threshold (the 0.0 of an empty store is not).
loop_again(ratio) == ratio.removed * 100 > STOP_THRESHOLD * ratio.sampled

A == <<"a">>
B == <<"b">>

\* Stores of four entries, each expired already or expiring at the start instant.
ReaperFixtures ==
    {<<Entry(K, Object(ValueString(FOO), Some(e[1]))),
       Entry(J, Object(ValueString(FOO), Some(e[2]))),
       Entry(A, Object(ValueString(FOO), Some(e[3]))),
       Entry(B, Object(ValueString(FOO), Some(e[4])))>> :
        e \in [1..4 -> {StartTime - 1, StartTime}]}

ReaperInit ==
    /\ db \in ReaperFixtures
    /\ now = StartTime
    /\ overflow_checks \in BOOLEAN
    /\ poisoned = FALSE
    /\ last = LastOther("init")
    /\ ConcIdle
    /\ WireIdle

\* The reaper's interval fires: the task leaves its sleep and enters the loop.
ReaperWake ==
    /\ pc[Reaper] = "idle"
    /\ pc' = [pc EXCEPT ![Reaper] = "looping"]
    /\ last' = LastOther("wake")
    /\ UNCHANGED <<db, now, overflow_checks, poisoned, guard, locals, ndone, applied, overflow, wire>>

\* One iteration of the loop: a pass, then the decision to go on or to sleep.
ReaperLoopPass(indexes) ==
    /\ pc[Reaper] = "looping"
    /\ lock_unwrap_ok(poisoned)
    /\ LET out == remove_expired_entries(db, ReaperSampleSize, indexes, now)
           ratio == [removed |-> out.removed, sampled |-> out.sampled]
       IN  /\ db' = out.map
           /\ last' = LastReap(ratio)
           /\ pc' = [pc EXCEPT ![Reaper] = IF loop_again(ratio) THEN "looping" ELSE "idle"]
    /\ UNCHANGED <<now, overflow_checks, poisoned, guard, locals, ndone, applied, overflow, wire>>

ReaperLoop ==
    \E indexes \in sample(Len(db), Min(ReaperSampleSize, Len(db))) : ReaperLoopPass(indexes)

ReaperNext == ReaperWake \/ ReaperLoop \/ Tick

ReaperSpec == ReaperInit /\ [][ReaperNext]_vars

\* ------------------------------------------------- codec and parser inputs

\* Largest number of elements in the frames that are damaged byte by byte.
MaxArgs == 2
\* Number of requests one connection sends in WireSpec.
MaxRequests == 2

CRLF == <<CR, LF>>

\* A request as a client writes it: an array of bulk strings.
RECURSIVE EncodeBulkStrings(_)
EncodeBulkStrings(args) ==
    IF args = <<>> THEN <<>>
    ELSE <<BULK_STRING_TYPE>> \o NatToString(Len(Head(args))) \o CRLF \o Head(args) \o CRLF
         \o EncodeBulkStrings(Tail(args))

EncodeRequest(args) ==
    <<ARRAY_TYPE>> \o NatToString(Len(args)) \o CRLF \o EncodeBulkStrings(args)

\* The frame of textual arguments.
Frame(params) == EncodeRequest([n \in 1..Len(params) |-> as_bytes(params[n])])

\* Payloads: empty, plain, holding CR and LF, and a two-byte character.
Payloads == {<<>>, <<"a">>, <<"1">>, <<CR, LF>>, <<BYTE_C3, BYTE_A9>>}
PayloadSeqs == UNION {[1..n -> Payloads] : n \in 0..MaxArgs}
Frames == {EncodeRequest(ps) : ps \in PayloadSeqs}

Alphabet ==
    {ARRAY_TYPE, BULK_STRING_TYPE, CR, LF, "0", "1", "9", "+", "a", BYTE_C3, BYTE_A9}

\* A frame with one byte replaced, inserted or deleted, or cut short.
Damaged(f) ==
    {[f EXCEPT ![i] = b] : i \in 1..Len(f), b \in Alphabet}
    \cup {SubSeq(f, 1, i) \o <<b>> \o SubSeq(f, i + 1, Len(f)) : i \in 0..Len(f), b \in Alphabet}
    \cup {SubSeq(f, 1, i - 1) \o SubSeq(f, i + 1, Len(f)) : i \in 1..Len(f)}
    \cup {SubSeq(f, 1, n) : n \in 0..Len(f)}

Args(n) == [i \in 1..n |-> K]

OptionTokens ==
    {<<"e", "x">>, <<"p", "x">>, <<"e", "x", "a", "t">>, <<"p", "x", "a", "t">>,
     <<"E", "X">>, <<"p", "X">>, <<"E", "x", "A", "t">>, <<"P", "X", "A", "T">>,
     <<"z", "z">>, <<"e">>, <<"e", "x", "x">>, <<>>}

ExpiryTokens ==
    {<<"1">>, <<"x">>, <<"+", "1">>, <<"-", "1">>, NatToString(U64_MAX), NatToString(U64_MAX + 1)}

\* Argument vectors of every arity around the one each command takes.
ArityParams ==
    {<<c>> \o Args(n) : c \in {PING, ECHO, GET, INCR, DECR, EXISTS, DEL, <<"G", "e", "T">>},
                        n \in 0..3}
    \cup {<<SET>> \o Args(n) : n \in {0, 1, 2, 3, 5, 6}}
    \cup {<<SET, K, FOO, o, v>> : o \in OptionTokens, v \in ExpiryTokens}

\* The frames that get damaged: any payload in the last element, after
\* elements that decode.
DamagedFrames ==
    {EncodeRequest(ps) : ps \in {qs \in PayloadSeqs : \A i \in 1..(Len(qs) - 1) : qs[i] = <<"a">>}}

\* A lower-case token with the letters at the positions in up written in
\* upper case.
WithUpper(tok, up) ==
    [i \in 1..Len(tok) |->
        IF i \in up /\ \E n \in 1..26 : Lower[n] = tok[i]
        THEN Upper[CHOOSE n \in 1..26 : Lower[n] = tok[i]]
        ELSE tok[i]]

\* Every letter-case variant of the command names Request::try_from matches,
\* each with arguments the command takes, and names that are no command.
CaseParams ==
    {<<WithUpper(c, up)>> : c \in {PING}, up \in SUBSET (1..4)}
    \cup {<<WithUpper(c, up), K>> : c \in {ECHO, GET, DEL, INCR, DECR}, up \in SUBSET (1..4)}
    \cup {<<WithUpper(EXISTS, up), K>> : up \in SUBSET (1..6)}
    \cup {<<WithUpper(SET, up), K, FOO>> : up \in SUBSET (1..3)}
    \cup {<<<<"F", "o", "O">>>>, <<<<"G", "E", "T", "S">>, K>>, <<<<"P", "I", "N">>>>,
          <<<<"p", "i", "n", "g", " ">>>>, <<<<"s", "E", "t", E_ACUTE>>, K, FOO>>}

\* INCRBY and DECRBY with every argument count around the two they take, and
\* with deltas inside and outside the signed range.
NumericParams ==
    {<<c>> \o Args(n) : c \in {INCRBY, DECRBY, <<"D", "e", "c", "r", "B", "Y">>}, n \in 0..3}
    \cup {<<c, K, d>> : c \in {INCRBY, DECRBY},
                        d \in DeltaTokens \cup {<<"+", "1">>, <<>>, <<"1", "x">>, <<"-">>}}
    \cup {<<c, K, <<"x">>, K>> : c \in {INCRBY, DECRBY}}

\* Argument vectors handed to Request::try_from without a frame, as the
\* repository's tests do.
DirectParams ==
    {<<>>, <<<<"U", "N", "K", "N", "O", "W", "N">>>>, <<<<"P", "i", "N", "g">>>>}

\* The inputs of the decoder: the frames, frames damaged, and the frames of
\* the argument vectors.
CodecInputs(frames, damaged) ==
    frames \cup UNION {Damaged(f) : f \in damaged}
    \cup {Frame(params) : params \in ArityParams \cup CaseParams \cup NumericParams}

Replies ==
    {Null, SimpleString(<<>>), SimpleString(OK), Integer(<<"0">>), Integer(<<"-", "1">>),
     SimpleError(MSG_SYNTAX), BulkString(<<>>), BulkString(FOO), BulkString(MSG_SYNTAX),
     BulkString(<<E_ACUTE>>), BulkString(<<"a", E_ACUTE, CR, LF>>)}

\* What one connection may send, one frame per read.
WireInputs ==
    {Frame(params) : params \in {<<PING>>, <<ECHO, <<E_ACUTE>>>>, <<SET, K, FOO>>, <<GET, K>>,
                                 <<DECRBY, K, i64_to_string(I64_MIN)>>, <<FOO>>}}
    \cup {<<BULK_STRING_TYPE>>, EncodeRequest(<<>>), <<ARRAY_TYPE, "1", CR, LF>>,
          EncodeRequest(<<<<"G", CR, LF>>>>)}

\* ------------------------------------------------- the codec, step by step

\* One byte string handed to the decoder, one argument vector handed to
\* Request::try_from, or one reply handed to the encoder.
CodecInit ==
    /\ db = <<>>
    /\ now = StartTime
    /\ overflow_checks = FALSE
    /\ poisoned = FALSE
    /\ last = LastOther("init")
    /\ ConcIdle
    /\ cmd = None
    /\ sent = <<>>
    /\ task = "reading"
    /\ \/ buf \in {<<m>> : m \in CodecInputs(Frames, DamagedFrames)}
          /\ des = None /\ pending = None
       \/ buf = <<>> /\ des \in {Some(Ok(params)) : params \in DirectParams} /\ pending = None
       \/ buf = <<>> /\ des = None /\ pending \in {Some(r) : r \in Replies}

Deserialize ==
    /\ buf # <<>>
    /\ des = None
    /\ des' = Some(deserialize_msg(buf[1]))
    /\ UNCHANGED <<db, now, overflow_checks, poisoned, last, conc, buf, cmd, pending, sent, task>>

TryFrom ==
    /\ des # None
    /\ Unwrap(des).ok
    /\ cmd = None
    /\ cmd' = Some(RequestTryFrom(Unwrap(des).v, now))
    /\ UNCHANGED <<db, now, overflow_checks, poisoned, last, conc, buf, des, pending, sent, task>>

Serialize ==
    /\ pending # None
    /\ sent = <<>>
    /\ sent' = <<serialize(Unwrap(pending))>>
    /\ UNCHANGED <<db, now, overflow_checks, poisoned, last, conc, buf, des, cmd, pending, task>>

CodecNext == Deserialize \/ TryFrom \/ Serialize

CodecSpec == CodecInit /\ [][CodecNext]_vars

\* ---------------------------------------------------- the connection driver

WireInit ==
    /\ db = <<>>
    /\ now = StartTime
    /\ overflow_checks \in BOOLEAN
    /\ poisoned = FALSE
    /\ last = LastOther("init")
    /\ ConcIdle
    /\ WireIdle

\* Result::unwrap returns the value of an Ok and panics on an Err.
unwrap_returns(result) == result.ok

\* read_buf returned the n bytes of msg: the slice is decoded, map_err turns
\* a decoder error into Err(SimpleError), map turns the arguments into the
\* reply of the request built and executed, and unwrap takes the reply out.
DriverRead(msg, shared) ==
    /\ task = "reading"
    /\ Len(buf) < MaxRequests
    /\ buf' = Append(buf, msg)
    /\ \E decoded \in {deserialize_msg(msg)} :
          /\ des' = Some(decoded)
          /\ IF decoded.ok
             THEN \E r \in {RequestTryFrom(decoded.v, now)} :
                  \E out \in {Serve(db, poisoned, r, shared, now, overflow_checks)} :
                  \E result \in {Ok(out.reply)} :
                  \E returns \in {unwrap_returns(result) /\ out.reply # Aborted} :
                      /\ shared \in Handlers(r)
                      /\ cmd' = Some(r)
                      /\ db' = out.map
                      /\ poisoned' = out.poisoned
                      /\ pending' = IF returns THEN Some(result.v) ELSE None
                      /\ task' = IF returns THEN "writing" ELSE "panicked"
             ELSE \E result \in {Err(SimpleError(deserialize_error_to_string(decoded.err)))} :
                  \E returns \in {unwrap_returns(result)} :
                      /\ cmd' = None
                      /\ pending' = IF returns THEN Some(result.err) ELSE None
                      /\ task' = IF returns THEN "writing" ELSE "panicked"
                      /\ UNCHANGED <<db, poisoned>>
    /\ UNCHANGED <<now, overflow_checks, last, conc, sent>>

\* write_all and flush of the serialized reply, then the next read.
DriverWrite ==
    /\ task = "writing"
    /\ sent' = Append(sent, serialize(Unwrap(pending)))
    /\ pending' = None
    /\ task' = "reading"
    /\ UNCHANGED <<db, now, overflow_checks, poisoned, last, conc, buf, des, cmd>>

\* read_buf returned Ok(0) or an error: the loop breaks and the task ends.
DriverClose ==
    /\ task = "reading"
    /\ task' = "closed"
    /\ UNCHANGED <<db, now, overflow_checks, poisoned, last, conc, buf, des, cmd, pending, sent>>

DriverRequest == \E msg \in WireInputs : \E shared \in BOOLEAN : DriverRead(msg, shared)

WireNext == DriverRequest \/ DriverWrite \/ DriverClose

WireSpec == WireInit /\ [][WireNext]_vars

\* ================================================================== claims

\* The numeric requests among the inputs, and what they stand for.
IsNumeric(r) == r.ok /\ r.v.c \in {"Incr", "Decr", "IncrBy", "DecrBy"}
NumericRequests == {r \in Requests[now] : IsNumeric(r)}
Outcome(r, shared) == Serve(db, poisoned, r, shared, now, overflow_checks)
IntegerReply(i) == Integer(i64_to_string(i))
ErrorReply(err) == SimpleError(error_to_string(err))
NumericCommands == {"Incr", "Decr", "IncrBy", "DecrBy"}

\* ---- C1: when concurrent connections issue numeric commands against one
\* key and no exact result leaves the i64 range, no update is lost: the
\* stored Integer equals the sum of the applied deltas, and the value each
\* command returns is the running sum at the moment it is applied.
C1_NoLostUpdate ==
    ~overflow =>
        /\ StoredInteger(db, K) = applied
        /\ \A c \in Conns :
              (pc[c] = "written" /\ locals[c].res.ok) => locals[c].res.v = applied

\* C1 witness: both connections have completed a command, a third command
\* has just been applied, nothing overflowed and the sum is not zero.
C1_Witness ==
    /\ ~overflow
    /\ applied # 0
    /\ \E c \in Conns :
          /\ pc[c] = "written"
          /\ locals[c].res.ok
          /\ ndone[c] >= 1
          /\ \E u \in Conns \ {c} : ndone[u] >= 1

C3_ErrorLeavesKeyspace ==
    \A r \in Requests[now] : \A shared \in Handlers(r) :
        Outcome(r, shared).reply.t = "SimpleError" => Outcome(r, shared).map = db

\* C3 witness: a numeric command on a live Integer has just been refused
\* with the overflow error, the keyspace holding that key.
C3_Witness ==
    /\ last.step = "cmd"
    /\ last.c \in NumericCommands
    /\ last.pre = "Integer"
    /\ last.reply = ErrorReply(OverflowError)
    /\ contains_key(db, last.key)

\* ---- C4: a numeric command on a live Integer is computed with checked
\* arithmetic: when the exact result fits i64 it is stored and returned,
\* otherwise the command replies with the overflow error and stores nothing;
\* a wrapped value is never stored or returned.
C4_CheckedArithmetic ==
    ~poisoned =>
        \A r \in NumericRequests : \A shared \in Handlers(r) :
            KeyState(db, r.v.key, now) = "Integer" =>
                LET exact == StoredInteger(db, r.v.key) + SignedDelta(RequestOp(r.v))
                    out == Outcome(r, shared)
                IN  IF exact \in I64
                    THEN /\ out.reply = IntegerReply(exact)
                         /\ StoredInteger(out.map, r.v.key) = exact
                    ELSE /\ out.reply = ErrorReply(OverflowError)
                         /\ out.map = db

\* ---- C5: a numeric command on an absent or expired key creates
\* Integer(op applied to 0) without expiry and replies with that value:
\* 1, -1, d and -d.
C5_CreatesFromZero ==
    ~poisoned =>
        \A r \in NumericRequests : \A shared \in Handlers(r) :
            KeyState(db, r.v.key, now) \in {"absent", "expired"} =>
                LET d == SignedDelta(RequestOp(r.v))
                    out == Outcome(r, shared)
                IN  /\ out.reply = IntegerReply(d)
                    /\ get(out.map, r.v.key) = Some(Object(ValueInteger(d), None))

\* ---- C6: DECRBY k d, for every i64 d and on every path (the key live,
\* missing or expired), either stores and returns exactly base - d, or is
\* refused with the overflow error and creates no entry; it never stores or
\* returns a wrapped value.
C6_DecrByExactOrRefused ==
    ~poisoned =>
        \A r \in NumericRequests :
            (r.v.c = "DecrBy" /\ KeyState(db, r.v.key, now) # "String") =>
                LET live == KeyState(db, r.v.key, now) = "Integer"
                    base == IF live THEN StoredInteger(db, r.v.key) ELSE 0
                    exact == base - r.v.v
                    out == Outcome(r, TRUE)
                IN  \/ /\ exact \in I64
                       /\ out.reply = IntegerReply(exact)
                       /\ get(out.map, r.v.key) # None
                       /\ StoredInteger(out.map, r.v.key) = exact
                    \/ /\ out.reply = ErrorReply(OverflowError)
                       /\ (live \/ KeyState(out.map, r.v.key, now) \in {"absent", "expired"})
                       /\ (live => out.map = db)

\* ---- C7: SET stores its value argument as a String, whatever its text,
\* and a numeric command on a live String replies with the not-an-integer
\* error and leaves the key unchanged.
C7_StringIsNotInteger ==
    ~poisoned =>
        /\ \A params \in ParamVectors :
              LET r == Parsed[now][params]
              IN  (r.ok /\ r.v.c = "Set") =>
                      /\ get(Outcome(r, TRUE).map, params[2]) # None
                      /\ Unwrap(get(Outcome(r, TRUE).map, params[2])).value
                            = ValueString(params[3])
        /\ \A r \in NumericRequests : \A shared \in Handlers(r) :
              KeyState(db, r.v.key, now) = "String" =>
                  /\ Outcome(r, shared).reply = ErrorReply(IntegerError)
                  /\ Outcome(r, shared).map = db

\* ---- C8: a successful numeric command on a live Integer keeps the key's
\* expiry: only the value changes.
C8_KeepsExpiry ==
    \A r \in NumericRequests : \A shared \in Handlers(r) :
        LET out == Outcome(r, shared)
        IN  (KeyState(db, r.v.key, now) = "Integer" /\ out.reply.t = "Integer") =>
                \E v \in I64 :
                    /\ out.reply = IntegerReply(v)
                    /\ out.map = insert(db, r.v.key,
                                        Object(ValueInteger(v),
                                               Unwrap(get(db, r.v.key)).expiration))
                    /\ Len(out.map) = Len(db)

\* C8 witness: a numeric command has just succeeded on a live Integer that
\* carries an expiry, and the key still carries it.
C8_Witness ==
    /\ last.step = "cmd"
    /\ last.c \in NumericCommands
    /\ last.pre = "Integer"
    /\ last.reply.t = "Integer"
    /\ get(db, last.key) # None
    /\ IsSome(Unwrap(get(db, last.key)).expiration)
    /\ Unwrap(get(db, last.key)).value.tag = "Integer"

\* The expiry the SET options stand for: EX and PX count from now, in
\* seconds and milliseconds, EXAT and PXAT count from the Unix epoch.
OptionExpiry(params, t) ==
    IF Len(params) = 3 THEN None
    ELSE LET option == to_lowercase(params[4])
             n == Unwrap(ParseU64(params[5]))
         IN  CASE option = to_lowercase(<<"E", "X">>) -> Some(t + n * MillisPerSec)
               [] option = to_lowercase(<<"P", "X">>) -> Some(t + n)
               [] option = to_lowercase(<<"E", "X", "A", "T">>) -> Some(n * MillisPerSec)
               [] option = to_lowercase(<<"P", "X", "A", "T">>) -> Some(n)

\* ---- C9: a SET that parsed never fails: it replies OK and replaces the
\* object under the key wholesale, the old value and expiry discarded and
\* the expiry set from the option or cleared; the other keys are untouched.
C9_SetReplaces ==
    \A params \in ParamVectors :
        LET r == Parsed[now][params]
            out == Outcome(r, TRUE)
        IN  (r.ok /\ r.v.c = "Set") =>
                /\ out.reply = SimpleString(OK)
                /\ get(out.map, params[2])
                      = Some(Object(ValueString(params[3]), OptionExpiry(params, now)))
                /\ \A k \in Keys \ {params[2]} : get(out.map, k) = get(db, k)

\* Whether a request names the key k.
Names(r, k) ==
    /\ r.ok
    /\ r.v.c \notin {"Ping", "Echo"}
    /\ IF r.v.c \in {"Exists", "Del"}
       THEN \E n \in 1..Len(r.v.keys) : r.v.keys[n] = k
       ELSE r.v.key = k

\* What SET k v without expiry leaves under k.
HeldBySet(map, k, v) == get(map, k) = Some(Object(ValueString(v), None))

\* ---- C10: after SET k v without expiry, GET k replies with v as a bulk
\* string until a command writes or deletes k: what the SET left under k is
\* returned by GET k and is kept by GET k itself, by every command on other
\* keys, by every command that replies with an error, and by every reaper pass.
C10_GetReturnsSet ==
    \A k \in Keys : \A v \in Values :
        HeldBySet(db, k, v) =>
            /\ \A r \in Requests[now] : \A shared \in Handlers(r) :
                  LET out == Outcome(r, shared)
                  IN  /\ (r.ok /\ r.v.c = "Get" /\ r.v.key = k) =>
                              (out.reply = BulkString(v) /\ HeldBySet(out.map, k, v))
                      /\ (~Names(r, k) \/ out.reply.t = "SimpleError") =>
                              HeldBySet(out.map, k, v)
            /\ \A sample_size \in 1..MaxSample :
                  \A indexes \in sample(Len(db), Min(sample_size, Len(db))) :
                      HeldBySet(remove_expired_entries(db, sample_size, indexes, now).map, k, v)

\* The keys a request lists (EXISTS and DEL).
ListedKeys(r) == {r.v.keys[n] : n \in 1..Len(r.v.keys)}

\* The number of list positions whose key is present and not expired.
RECURSIVE LiveCount(_, _, _)
LiveCount(map, keys, t) ==
    IF keys = <<>> THEN 0
    ELSE (IF KeyState(map, Head(keys), t) \in {"Integer", "String"} THEN 1 ELSE 0)
         + LiveCount(map, Tail(keys), t)

\* ---- C11: lazy purge: GET k, or an EXISTS that lists k, on an entry of k
\* that is expired removes the entry inside the command: afterwards the
\* keyspace has no entry for k, GET replies Null and EXISTS does not count k.
C11_LazyPurge ==
    \A k \in Keys :
        KeyState(db, k, now) = "expired" =>
            \A r \in Requests[now] :
                LET out == Outcome(r, TRUE)
                IN  /\ (r.ok /\ r.v.c = "Get" /\ r.v.key = k) =>
                            (out.reply = Null /\ get(out.map, k) = None)
                    /\ (r.ok /\ r.v.c = "Exists" /\ k \in ListedKeys(r)) =>
                            /\ get(out.map, k) = None
                            /\ out.reply = IntegerReply(LiveCount(db, r.v.keys, now))

\* ---- C14: EXISTS k1..kn replies the number of list positions whose key is
\* present and not expired (a live key listed twice counts 2), removes every
\* listed key that is expired, and leaves every other entry as it was.
C14_ExistsCounts ==
    \A r \in Requests[now] :
        (r.ok /\ r.v.c = "Exists") =>
            LET out == Outcome(r, TRUE)
            IN  /\ out.reply = IntegerReply(LiveCount(db, r.v.keys, now))
                /\ \A k \in Keys :
                      IF k \in ListedKeys(r) /\ KeyState(db, k, now) = "expired"
                      THEN get(out.map, k) = None
                      ELSE get(out.map, k) = get(db, k)

\* ---- C15: DEL k1..kn replies the number of entries it removed: each
\* distinct listed key that had an entry, expired or not, counts once, and
\* afterwards no listed key has an entry; the other entries stay.
C15_DelCounts ==
    \A r \in Requests[now] :
        (r.ok /\ r.v.c = "Del") =>
            LET out == Outcome(r, TRUE)
                had == {k \in ListedKeys(r) : contains_key(db, k)}
            IN  /\ out.reply = IntegerReply(Cardinality(had))
                /\ \A k \in ListedKeys(r) : get(out.map, k) = None
                /\ \A k \in Keys \ ListedKeys(r) : get(out.map, k) = get(db, k)

\* ---- C16: DEL k on a key that has an entry replies 1 and leaves no entry;
\* the entry stays absent through every command that does not name k, every
\* command that replies with an error and every reaper pass; and DEL k on a
\* key without entry replies 0: DEL k, DEL k reply 1 then 0.
C16_DelIdempotent ==
    \A k \in Keys :
        LET del == Outcome(Parsed[now][<<DEL, k>>], TRUE)
        IN  IF contains_key(db, k)
            THEN del.reply = IntegerReply(1) /\ ~contains_key(del.map, k)
            ELSE /\ del.reply = IntegerReply(0)
                 /\ ~contains_key(del.map, k)
                 /\ \A r \in Requests[now] : \A shared \in Handlers(r) :
                       (~Names(r, k) \/ Outcome(r, shared).reply.t = "SimpleError") =>
                           ~contains_key(Outcome(r, shared).map, k)
                 /\ \A sample_size \in 1..MaxSample :
                       \A indexes \in sample(Len(db), Min(sample_size, Len(db))) :
                           ~contains_key(
                               remove_expired_entries(db, sample_size, indexes, now).map, k)

\* An object whose expiration instant is at or before t.
ExpiredAt(obj, t) == IsSome(obj.expiration) /\ Unwrap(obj.expiration) <= t

\* The reaper passes that can run on the keyspace now: the sample size and the draw.
Draws ==
    {<<sample_size, indexes>> :
        sample_size \in 1..MaxSample,
        indexes \in UNION {sample(Len(db), Min(n, Len(db))) : n \in 1..MaxSample}}
Passes == {p \in Draws : Len(p[2]) = Min(p[1], Len(db))}
Pass(p) == remove_expired_entries(db, p[1], p[2], now)

\* ---- C12: an object is classified Expired exactly when its expiration is
\* at or before the current instant (equality included), NotExpired when it
\* has no expiration or a later one; and no read returns the value of an
\* object whose expiration is at or before now.
C12_ExpiredAtOrBeforeNow ==
    /\ \A n \in 1..Len(db) :
          ExpirationStatus(Some(db[n].obj), now)
              = (IF ExpiredAt(db[n].obj, now) THEN "Expired" ELSE "NotExpired")
    /\ \A r \in Requests[now] :
          (r.ok /\ r.v.c = "Get" /\ get(db, r.v.key) # None
                /\ ExpiredAt(Unwrap(get(db, r.v.key)), now)) =>
              Outcome(r, TRUE).reply.t # "BulkString"

\* ---- C13: the lazy path and the reaper classify alike: for every entry
\* and instant, a reaper pass that samples the entry removes it if and only
\* if a GET of its key at that instant treats it as absent.
C13_PathsAgree ==
    \A n \in 1..Len(db) :
        LET reaped == ~contains_key(
                          remove_expired_entries(db, 1, <<n - 1>>, now).map, db[n].key)
            absent == ExecuteGet(db, db[n].key, now).reply = Null
        IN  reaped <=> absent

\* ---- C17: a reaper pass never removes an entry that is not expired: every
\* entry without expiration, or with an expiration later than now, is still
\* there after the pass with the same value and expiry.
C17_ReaperKeepsLive ==
    \A p \in Passes :
        \A n \in 1..Len(db) :
            (db[n].obj.expiration = None \/ Unwrap(db[n].obj.expiration) > now) =>
                get(Pass(p).map, db[n].key) = Some(db[n].obj)

\* C17 witness: a reaper pass has just removed an entry, and an entry whose
\* expiration is later than now is still in the keyspace.
C17_Witness ==
    /\ last.step = "reap"
    /\ last.ratio.removed >= 1
    /\ \E n \in 1..Len(db) :
          IsSome(db[n].obj.expiration) /\ Unwrap(db[n].obj.expiration) > now

\* ---- C18: a reaper pass with sample size n on m entries samples
\* s = min(n, m) entries, removes exactly the sampled entries that are
\* expired (at most s, and every expired entry when n >= m), whatever the
\* unordered removes move, and returns removed / s, in [0, 1]; on an empty
\* store it returns 0 and changes nothing.
C18_PassRemovesSampledExpired ==
    \A p \in Passes :
        LET m == Len(db)
            s == Min(p[1], m)
            sampled == {db[p[2][a] + 1].key : a \in 1..s}
            expired == {k \in sampled : ExpiredAt(Unwrap(get(db, k)), now)}
            out == Pass(p)
        IN  IF m = 0
            THEN out.removed = 0 /\ out.map = db
            ELSE /\ out.sampled = s
                 /\ out.removed = Cardinality(expired)
                 /\ out.removed <= out.sampled
                 /\ KeysOf(out.map) = KeysOf(db) \ expired
                 /\ \A k \in KeysOf(out.map) : get(out.map, k) = get(db, k)
                 /\ (p[1] >= m =>
                        \A k \in KeysOf(out.map) : ~ExpiredAt(Unwrap(get(out.map, k)), now))

\* ---- C19: within one reaper sample the s = min(n, m) positions are
\* pairwise distinct and each lies in [0, m), m being the size of the store
\* the pass works on, and no key is collected for removal twice.
C19_SampleDistinct ==
    \A sample_size \in 1..MaxSample :
        \A indexes \in sample(Len(db), Min(sample_size, Len(db))) :
            LET keys == CollectExpired(db, indexes, now)
            IN  /\ Len(indexes) = Min(sample_size, Len(db))
                /\ \A a, b \in 1..Len(indexes) : a # b => indexes[a] # indexes[b]
                /\ \A a \in 1..Len(indexes) : indexes[a] >= 0 /\ indexes[a] < Len(db)
                /\ \A a, b \in 1..Len(keys) : a # b => keys[a] # keys[b]
                /\ Len(keys) <= Len(indexes)

\* C19 witness: a reaper pass has just sampled two entries, collected the
\* key of one of them and removed it.
C19_Witness ==
    /\ last.step = "reap"
    /\ last.ratio.sampled = 2
    /\ last.ratio.removed = 1
    /\ Len(db) = 1

\* ---- C20: within one tick the reaper runs another sampling pass if and
\* only if the pass before returned a ratio removed / s strictly above 0.25;
\* at a ratio of at most 0.25, or on an empty store, it stops and waits for
\* the next tick. A pass runs only while the reaper is in its loop.
C20_LoopWhileAboveThreshold ==
    [][ last'.step = "reap" =>
          /\ pc[Reaper] = "looping"
          /\ IF last'.ratio.sampled # 0
                /\ last'.ratio.removed * 4 > last'.ratio.sampled
             THEN pc'[Reaper] = "looping"
             ELSE pc'[Reaper] = "idle" ]_vars

\* C20 witness: a pass has just sampled four entries and removed one, a
\* ratio of exactly 0.25, and the reaper has gone back to sleep.
C20_Witness ==
    /\ last.step = "reap"
    /\ last.ratio.sampled = 4
    /\ last.ratio.removed = 1
    /\ pc[Reaper] = "idle"

\* ---- C21: while every entry of the store is expired (its expiration at or
\* before the current instant) and no command inserts, each reaper pass on a
\* non-empty store leaves the store strictly smaller, so that repeated passes
\* empty it.
C21_PassShrinksExpiredStore ==
    [][ ( /\ last'.step = "reap"
          /\ Len(db) > 0
          /\ \A n \in 1..Len(db) : ExpiredAt(db[n].obj, now) )
        => Len(db') < Len(db) ]_vars

\* ---- C22: every byte string of the request grammar, '*' count CRLF then
\* count times '$' len CRLF len-bytes CRLF, count = 0 and len = 0 included,
\* payloads holding CR or LF included, payloads valid UTF-8, decodes
\* successfully to the ordered sequence of its payloads.
C22_WellFormedDecodes ==
    \A ps \in PayloadSeqs :
        (buf = <<EncodeRequest(ps)>> /\ des # None)
        => Unwrap(des) = Ok([n \in 1..Len(ps) |-> Unwrap(from_utf8(ps[n]))])

\* The request grammar read position by position (positions count from 1):
\* the class of the first violation, "none" for a well-formed frame.
IsDecimal(s) == AllDigits(s) /\ DigitsToNat(s) <= U32_MAX

FirstCrLf(msg, from) ==
    LET at == {p \in from..(Len(msg) - 1) : msg[p] = CR /\ msg[p + 1] = LF}
    IN  IF at = {} THEN 0 ELSE CHOOSE p \in at : \A q \in at : p <= q

RECURSIVE ElementViolation(_, _, _)
ElementViolation(msg, pos, n) ==
    IF n = 0 THEN (IF pos <= Len(msg) THEN MalformedArray ELSE "none")
    ELSE IF pos > Len(msg) THEN MalformedBulkString
    ELSE IF msg[pos] # "$" THEN BulkStringExpected
    ELSE LET e == FirstCrLf(msg, pos + 1)
             digits == SubSeq(msg, pos + 1, e - 1)
             after == e + 2 + DigitsToNat(digits)
         IN  IF e = 0 \/ ~IsDecimal(digits) THEN MalformedBulkString
             ELSE IF after + 1 > Len(msg) \/ msg[after] # CR \/ msg[after + 1] # LF
             THEN MalformedBulkString
             ELSE ElementViolation(msg, after + 2, n - 1)

FirstViolation(msg) ==
    IF msg = <<>> \/ msg[1] # "*" THEN InvalidStartOfMsg
    ELSE LET e == FirstCrLf(msg, 2)
             digits == SubSeq(msg, 2, e - 1)
         IN  IF e = 0 \/ ~IsDecimal(digits) THEN MalformedArray
             ELSE ElementViolation(msg, e + 2, DigitsToNat(digits))

\* ---- C23: the decoder fails with the class of the first violation:
\* InvalidStartOfMsg for an input that is empty or does not start with '*';
\* MalformedArray for a count without CRLF or not a decimal, or a byte after
\* the last CRLF; BulkStringExpected for an element not starting with '$';
\* MalformedBulkString for a missing element, a length that is not a decimal
\* or has no CRLF, a payload shorter or longer than declared or not
\* followed by CRLF.
C23_FailsWithFirstViolation ==
    (buf # <<>> /\ des # None /\ FirstViolation(buf[1]) # "none")
    => Unwrap(des) = Err(FirstViolation(buf[1]))

\* ---- C24: codec round trip: a byte string that decodes successfully to
\* the arguments a1..an is exactly the encoding of a1..an as an array of
\* bulk strings.
C24_RoundTrip ==
    (buf # <<>> /\ des # None /\ Unwrap(des).ok) => Frame(Unwrap(des).v) = buf[1]

\* ---- C25: when decoding a request fails, the driver writes a SimpleError
\* reply that carries the decoder error's text and keeps the connection
\* open: the task does not end, the reply is the one it writes next or has
\* written last, and it goes on to read.
C25_DecodeErrorIsReplied ==
    (buf # <<>> /\ des # None /\ ~Unwrap(des).ok)
    => LET reply == SimpleError(deserialize_error_to_string(Unwrap(des).err))
       IN  /\ task # "panicked"
           /\ \/ task = "writing" /\ pending = Some(reply)
              \/ /\ task \in {"reading", "closed"}
                 /\ Len(sent) = Len(buf)
                 /\ sent[Len(sent)] = serialize(reply)

\* The bytes a connection is owed for the requests msgs, served one after
\* another from the keyspace map.
RECURSIVE OwedReplies(_, _, _)
OwedReplies(msgs, map, psn) ==
    IF msgs = <<>> THEN <<>>
    ELSE LET decoded == deserialize_msg(Head(msgs))
             out == IF decoded.ok
                    THEN Serve(map, psn, RequestTryFrom(decoded.v, now), TRUE, now,
                               overflow_checks)
                    ELSE [map |-> map, poisoned |-> psn,
                          reply |-> SimpleError(deserialize_error_to_string(decoded.err))]
         IN  <<serialize(out.reply)>> \o OwedReplies(Tail(msgs), out.map, out.poisoned)

\* Requests are answered one by one and in order.
InRequestOrder ==
    /\ Len(sent) = IF task = "writing" THEN Len(buf) - 1 ELSE Len(buf)
    /\ sent = OwedReplies(SubSeq(buf, 1, Len(sent)), <<>>, FALSE)

\* ---- C26: on one connection every request received produces exactly one
\* reply, requests are executed in the order received, and the reply to
\* request i is written before request i+1 is executed: the task never ends
\* with a request unanswered, and what it has written is the replies to the
\* requests read so far, in their order, all but the one being answered.
C26_OneReplyPerRequestInOrder ==
    /\ task # "panicked"
    /\ InRequestOrder

\* The number of bytes of a text: two for U+00E9, one for every other character.
ByteCount(s) == Len(s) + Cardinality({n \in 1..Len(s) : s[n] = E_ACUTE})

\* ---- C27: the reply encoder emits exactly '_' CRLF for Null, '+' s CRLF
\* for SimpleString(s), ':' s CRLF for Integer(s), '-' s CRLF for
\* SimpleError(s), and for BulkString(s) '$', the decimal byte length of s,
\* CRLF, the bytes of s, CRLF: '$0' CRLF CRLF for the empty bulk string, and
\* the length counts bytes, not characters.
C27_ReplyBytes ==
    (pending # None /\ sent # <<>>)
    => LET r == Unwrap(pending)
           bytes == as_bytes(r.s)
       IN  /\ r = Null => sent[1] = <<"_", "\r", "\n">>
           /\ r.t = "SimpleString" => sent[1] = <<"+">> \o bytes \o <<"\r", "\n">>
           /\ r.t = "Integer" => sent[1] = <<":">> \o bytes \o <<"\r", "\n">>
           /\ r.t = "SimpleError" => sent[1] = <<"-">> \o bytes \o <<"\r", "\n">>
           /\ r.t = "BulkString" =>
                 sent[1] = <<"$">> \o NatToString(ByteCount(r.s)) \o <<"\r", "\n">>
                           \o bytes \o <<"\r", "\n">>
           /\ r = BulkString(<<>>) => sent[1] = <<"$", "0", "\r", "\n", "\r", "\n">>

\* C27 witness: a bulk string of four characters and five bytes has been
\* serialized with the length 5.
C27_Witness ==
    /\ pending = Some(BulkString(<<"a", E_ACUTE, CR, LF>>))
    /\ sent = <<<<"$", "5", "\r", "\n", "a", BYTE_C3, BYTE_A9, "\r", "\n", "\r", "\n">>>>

\* Whether the text s is the lower-case token tok written in any letter case.
IsToken(s, tok) ==
    /\ Len(s) = Len(tok)
    /\ \A i \in 1..Len(tok) :
          s[i] = tok[i] \/ \E n \in 1..26 : Lower[n] = tok[i] /\ Upper[n] = s[i]

\* Request::try_from has run on the arguments the decoder returned.
TryFromRan ==
    /\ buf # <<>>
    /\ des # None
    /\ Unwrap(des).ok
    /\ Unwrap(des).v # <<>>
    /\ cmd # None

\* ---- C28: arity is enforced: PING takes 0 or 1 argument, ECHO, GET, INCR
\* and DECR exactly 1, EXISTS and DEL at least 1; every other argument count
\* is rejected with WrongNumberOfArguments naming that command, and no
\* request is built.
C28_ArityEnforced ==
    TryFromRan =>
        LET params == Unwrap(des).v
            n == Len(params) - 1
            r == Unwrap(cmd)
        IN  \A tok \in {PING, ECHO, GET, INCR, DECR, EXISTS, DEL} :
                IsToken(params[1], tok) =>
                    LET accepted ==
                            CASE tok = PING -> n \in {0, 1}
                              [] tok \in {ECHO, GET, INCR, DECR} -> n = 1
                              [] tok \in {EXISTS, DEL} -> n >= 1
                    IN  IF accepted
                        THEN r.ok
                        ELSE r = [ok |-> FALSE,
                                  err |-> [e |-> "WrongNumberOfArguments", name |-> tok]]

\* C28 witness: ECHO with two arguments has been refused.
C28_Witness ==
    /\ TryFromRan
    /\ Unwrap(des).v = <<ECHO, K, K>>
    /\ ~Unwrap(cmd).ok

\* ---- C29: SET takes exactly 2 or 4 arguments after its name: 0 or 1
\* argument is WrongNumberOfArguments('set'), 3 arguments are SyntaxError,
\* 5 or more are SyntaxError, and 2 arguments parse to a SET of that key and
\* value without expiry.
C29_SetArity ==
    TryFromRan =>
        LET params == Unwrap(des).v
            n == Len(params) - 1
            r == Unwrap(cmd)
        IN  IsToken(params[1], SET) =>
                /\ n \in {0, 1} =>
                      r = [ok |-> FALSE, err |-> [e |-> "WrongNumberOfArguments", name |-> SET]]
                /\ (n = 3 \/ n >= 5) =>
                      r = [ok |-> FALSE, err |-> [e |-> "SyntaxError", name |-> <<>>]]
                /\ n = 2 =>
                      r = Ok([c |-> "Set", key |-> params[2],
                              value |-> ValueString(params[3]), expiration |-> None])
                /\ (n = 4 /\ params[4] = <<"p", "x">> /\ params[5] = <<"1">>) =>
                      r.ok /\ r.v.expiration # None

\* C29 witness: SET with a key, a value and an option without its integer
\* has been refused as a syntax error.
C29_Witness ==
    /\ TryFromRan
    /\ Unwrap(des).v = <<SET, K, K, K>>
    /\ Unwrap(cmd) = [ok |-> FALSE, err |-> [e |-> "SyntaxError", name |-> <<>>]]

\* The option tokens of SET.
SetOptions == {<<"e", "x">>, <<"p", "x">>, <<"e", "x", "a", "t">>, <<"p", "x", "a", "t">>}

\* SET with four arguments has been parsed.
FourArgumentSet ==
    /\ TryFromRan
    /\ Len(Unwrap(des).v) = 5
    /\ IsToken(Unwrap(des).v[1], SET)

\* ---- C30, as stated: a 4-argument SET whose option token is not one of
\* ex, px, exat, pxat, compared case-insensitively, is rejected with
\* SyntaxError; a valid token gives the same result in any letter case.
C30_UnknownOptionIsSyntaxError ==
    FourArgumentSet =>
        LET params == Unwrap(des).v
            r == Unwrap(cmd)
        IN  IF \E tok \in SetOptions : IsToken(params[4], tok)
            THEN \A tok \in SetOptions :
                    IsToken(params[4], tok) =>
                        r = RequestTryFrom(<<SET, params[2], params[3], tok, params[5]>>, now)
            ELSE r = [ok |-> FALSE, err |-> [e |-> "SyntaxError", name |-> <<>>]]

\* An unsigned 64-bit decimal as str::parse reads it: digits, '+' allowed first.
IsU64Decimal(s) ==
    LET digits == IF s # <<>> /\ s[1] = "+" THEN Tail(s) ELSE s
    IN  AllDigits(digits) /\ DigitsToNat(digits) <= U64_MAX

\* ---- C30, amended: the expiry integer is looked at first. A 4-argument
\* SET whose integer is not an unsigned 64-bit decimal is rejected with
\* IntegerError whatever the option token; when the integer parses, an option
\* token that is not one of ex, px, exat, pxat, compared case-insensitively,
\* is rejected with SyntaxError, and a valid token is accepted in any letter
\* case, unless the expiry overflows the representable instant.
C30_UnknownOptionAfterInteger ==
    FourArgumentSet =>
        LET params == Unwrap(des).v
            r == Unwrap(cmd)
            number == IsU64Decimal(params[5])
        IN  IF ~number
            THEN r = [ok |-> FALSE, err |-> [e |-> "IntegerError", name |-> <<>>]]
            ELSE IF \E tok \in SetOptions : IsToken(params[4], tok)
            THEN /\ \A tok \in SetOptions :
                       IsToken(params[4], tok) =>
                           r = RequestTryFrom(<<SET, params[2], params[3], tok, params[5]>>, now)
                 /\ r.ok \/ r = [ok |-> FALSE, err |-> [e |-> "IntegerError", name |-> <<>>]]
                 /\ params[5] = <<"1">> => r.ok /\ r.v.expiration # None
            ELSE r = [ok |-> FALSE, err |-> [e |-> "SyntaxError", name |-> <<>>]]

\* C30 witness: SET with an unknown option and an expiry that is no number
\* has been refused with IntegerError.
C30_Witness ==
    /\ FourArgumentSet
    /\ Unwrap(des).v = <<SET, K, FOO, <<"z", "z">>, <<"x">>>>
    /\ Unwrap(cmd) = [ok |-> FALSE, err |-> [e |-> "IntegerError", name |-> <<>>]]

\* --------------------------------------------------------------- SET expiry

\* The number an unsigned 64-bit decimal denotes.
U64Value(s) == DigitsToNat(IF s # <<>> /\ s[1] = "+" THEN Tail(s) ELSE s)

\* The instant the option token and the number n name, in milliseconds
\* since the Unix epoch, when the token is one of the four.
ExpiryInstant(option, n, t) ==
    CASE IsToken(option, <<"e", "x">>) -> t + n * MillisPerSec
      [] IsToken(option, <<"p", "x">>) -> t + n
      [] IsToken(option, <<"e", "x", "a", "t">>) -> n * MillisPerSec
      [] IsToken(option, <<"p", "x", "a", "t">>) -> n

\* ---- C31: the SET expiry integer n is parsed as an unsigned 64-bit
\* decimal and resolved as EX n -> now + n seconds, PX n -> now + n
\* milliseconds, EXAT n -> Unix epoch + n seconds, PXAT n -> Unix epoch + n
\* milliseconds; an n that is not an unsigned 64-bit decimal, or an addition
\* that overflows the representable instant, yields IntegerError and nothing
\* is stored.
C31_ExpiryResolved ==
    (FourArgumentSet /\ \E tok \in SetOptions : IsToken(Unwrap(des).v[4], tok)) =>
        LET params == Unwrap(des).v
            r == Unwrap(cmd)
            instant == ExpiryInstant(params[4], U64Value(params[5]), now)
        IN  IF IsU64Decimal(params[5]) /\ instant <= SystemTimeMax
            THEN r = Ok([c |-> "Set", key |-> params[2],
                         value |-> ValueString(params[3]), expiration |-> Some(instant)])
            ELSE /\ r = [ok |-> FALSE, err |-> [e |-> "IntegerError", name |-> <<>>]]
                 /\ \A shared \in BOOLEAN :
                       Serve(db, poisoned, r, shared, now, overflow_checks)
                           = [map |-> db, poisoned |-> poisoned,
                              reply |-> SimpleError(MSG_INTEGER)]

\* C31 witness: SET with EX and the largest unsigned number has been refused
\* with IntegerError, the addition to now overflowing the instant.
C31_Witness ==
    /\ FourArgumentSet
    /\ Unwrap(des).v = <<SET, K, FOO, <<"E", "X">>, NatToString(U64_MAX)>>
    /\ now + U64_MAX * MillisPerSec > SystemTimeMax
    /\ Unwrap(cmd) = [ok |-> FALSE, err |-> [e |-> "IntegerError", name |-> <<>>]]

\* ------------------------------------------------------------ command names

\* The command names and the request each one builds.
CommandTokens == {PING, ECHO, GET, SET, EXISTS, DEL, INCR, DECR, INCRBY, DECRBY}

CommandTag(tok) ==
    CASE tok = PING -> "Ping" [] tok = ECHO -> "Echo" [] tok = GET -> "Get"
      [] tok = SET -> "Set" [] tok = EXISTS -> "Exists" [] tok = DEL -> "Del"
      [] tok = INCR -> "Incr" [] tok = DECR -> "Decr"
      [] tok = INCRBY -> "IncrBy" [] tok = DECRBY -> "DecrBy"

\* Whether l is the text s with its upper-case letters written in lower case.
IsLowercased(l, s) ==
    /\ Len(l) = Len(s)
    /\ \A i \in 1..Len(s) :
          IF \E n \in 1..26 : Upper[n] = s[i]
          THEN \E n \in 1..26 : Upper[n] = s[i] /\ Lower[n] = l[i]
          ELSE l[i] = s[i]

\* Request::try_from has run, on decoded or on directly given arguments.
TryFromApplied == des # None /\ Unwrap(des).ok /\ cmd # None

\* ---- C32: command names are matched case-insensitively on the lowercased
\* first argument: every letter-case variant of a command token dispatches to
\* the same command with the same result as the lower-case token; a first
\* argument that is no command token yields UnknownCommand carrying the
\* lowercased name, and an empty argument list yields UnknownCommand with the
\* empty name.
C32_CaseInsensitive ==
    TryFromApplied =>
        LET params == Unwrap(des).v
            r == Unwrap(cmd)
        IN  IF params = <<>>
            THEN r = [ok |-> FALSE, err |-> [e |-> "UnknownCommand", name |-> <<>>]]
            ELSE IF \E tok \in CommandTokens : IsToken(params[1], tok)
            THEN \A tok \in CommandTokens :
                    IsToken(params[1], tok) =>
                        /\ r = RequestTryFrom(<<tok>> \o Tail(params), now)
                        /\ r.ok => r.v.c = CommandTag(tok)
                        /\ ~r.ok => r.err.e # "UnknownCommand"
            ELSE /\ ~r.ok
                 /\ r.err.e = "UnknownCommand"
                 /\ IsLowercased(r.err.name, params[1])

\* C32 witness: EXISTS written eXiStS has been dispatched to the Exists
\* command.
C32_Witness ==
    /\ TryFromApplied
    /\ Unwrap(des).v = <<<<"e", "X", "i", "S", "t", "S">>, K>>
    /\ Unwrap(cmd) = Ok([c |-> "Exists", keys |-> <<K>>])

\* ------------------------------------------------------ INCRBY and DECRBY

\* A signed 64-bit decimal: an optional sign, digits, a value in range.
I64Value(s) ==
    LET digits == IF s # <<>> /\ s[1] \in {"+", "-"} THEN Tail(s) ELSE s
    IN  IF s # <<>> /\ s[1] = "-" THEN -DigitsToNat(digits) ELSE DigitsToNat(digits)

IsI64Decimal(s) ==
    /\ AllDigits(IF s # <<>> /\ s[1] \in {"+", "-"} THEN Tail(s) ELSE s)
    /\ I64Value(s) \in I64

\* ---- C33: INCRBY and DECRBY take exactly 2 arguments, key and delta: any
\* other count is WrongNumberOfArguments naming the command that was invoked
\* (incrby for INCRBY, decrby for DECRBY), checked before the delta is looked
\* at; a delta that is not a signed 64-bit decimal is IntegerError; otherwise
\* the parsed key and delta are exactly the arguments given.
C33_NumericArity ==
    (TryFromApplied /\ Unwrap(des).v # <<>>) =>
        LET params == Unwrap(des).v
            n == Len(params) - 1
            r == Unwrap(cmd)
        IN  \A tok \in {INCRBY, DECRBY} :
                IsToken(params[1], tok) =>
                    IF n # 2
                    THEN r = [ok |-> FALSE,
                              err |-> [e |-> "WrongNumberOfArguments", name |-> tok]]
                    ELSE IF ~IsI64Decimal(params[3])
                    THEN r = [ok |-> FALSE, err |-> [e |-> "IntegerError", name |-> <<>>]]
                    ELSE r = Ok([c |-> CommandTag(tok), key |-> params[2],
                                 v |-> I64Value(params[3])])

\* --------------------------------------------------------------------- GET

\* The GET of key k, as Request::try_from builds it.
GetOf(k) == Ok([c |-> "Get", key |-> k])

\* ---- C34: GET k replies BulkString of the stored value's text when k is
\* present and not expired, the string itself for a String and the decimal
\* literal, '-' first when negative, for an Integer, so that GET after a
\* numeric command returns the decimal text of that command's reply; it
\* replies Null when k is absent or expired; GET on a live key does not
\* change the store.
C34_GetRepliesStoredText ==
    /\ \A r \in Requests[now] :
          (r.ok /\ r.v.c = "Get") =>
              LET out == Outcome(r, TRUE)
                  state == KeyState(db, r.v.key, now)
                  held == Unwrap(get(db, r.v.key)).value
              IN  /\ state = "String" => out.reply = BulkString(held.s) /\ out.map = db
                  /\ state = "Integer" =>
                        /\ out.reply.t = "BulkString"
                        /\ ParseI64(out.reply.s) = Some(held.i)
                        /\ (out.reply.s[1] = "-") = (held.i < 0)
                        /\ out.map = db
                  /\ state \in {"absent", "expired"} => out.reply = Null
    /\ \A r \in NumericRequests : \A shared \in Handlers(r) :
          LET first == Outcome(r, shared)
              then == Serve(first.map, first.poisoned, GetOf(r.v.key), TRUE,
                            now, overflow_checks)
          IN  first.reply.t = "Integer" => then.reply = BulkString(first.reply.s)

\* ------------------------------------------------- INCR, DECR and their -BY

\* The numeric requests on key k, as Request::try_from builds them.
IncrOf(k) == Ok([c |-> "Incr", key |-> k])
DecrOf(k) == Ok([c |-> "Decr", key |-> k])
IncrByOf(k, d) == Ok([c |-> "IncrBy", key |-> k, v |-> d])
DecrByOf(k, d) == Ok([c |-> "DecrBy", key |-> k, v |-> d])

\* ---- C35: INCR is the same operation as INCRBY 1 and DECR the same as
\* DECRBY 1: run from the same keyspace state on the same key, the two
\* members of each pair give the same reply and the same resulting keyspace,
\* on the missing, expired, String, Integer and overflow paths; this also
\* holds between the inline INCR and DECR handlers of the request executor
\* and the shared numeric executor.
C35_IncrIsIncrByOne ==
    \A k \in Keys : \A shared \in BOOLEAN :
        /\ Outcome(IncrOf(k), shared) = Outcome(IncrByOf(k, 1), TRUE)
        /\ Outcome(DecrOf(k), shared) = Outcome(DecrByOf(k, 1), TRUE)

\* C35 witness: INCR has just been refused with the overflow error on key K,
\* which holds the largest Integer, and DECR has a live Integer to lower.
C35_Witness ==
    /\ last.step = "cmd" /\ last.c = "Incr" /\ last.key = K /\ last.pre = "Integer"
    /\ last.reply = ErrorReply(OverflowError)
    /\ KeyState(db, K, now) = "Integer"
    /\ Unwrap(get(db, K)).value.i = I64_MAX
    /\ Outcome(IncrByOf(K, 1), TRUE).reply = ErrorReply(OverflowError)
    /\ Outcome(DecrOf(K), FALSE).reply = IntegerReply(I64_MAX - 1)

\* ---- C36: in a 4-argument SET the expiry integer is validated before the
\* option token: an integer argument that is not an unsigned 64-bit decimal,
\* non-numeric or too large, yields IntegerError whatever the option token
\* is, an unrecognised one included; SyntaxError for an unrecognised token is
\* reported only when the integer parses.
C36_IntegerBeforeOption ==
    FourArgumentSet =>
        LET option == Unwrap(des).v[4]
            integer == Unwrap(des).v[5]
            r == Unwrap(cmd)
            recognised == \E tok \in SetOptions : IsToken(option, tok)
            IsError(e) == r = [ok |-> FALSE, err |-> [e |-> e, name |-> <<>>]]
        IN  /\ ~IsU64Decimal(integer) => IsError("IntegerError")
            /\ IsError("SyntaxError") <=> (IsU64Decimal(integer) /\ ~recognised)

\* C36 witness: SET with an unrecognised option and an integer one past the
\* largest unsigned number has been refused with IntegerError, and with the
\* same option and the integer 1 it is a syntax error.
C36_Witness ==
    /\ FourArgumentSet
    /\ Unwrap(des).v = <<SET, K, FOO, <<"z", "z">>, NatToString(U64_MAX + 1)>>
    /\ Unwrap(cmd) = [ok |-> FALSE, err |-> [e |-> "IntegerError", name |-> <<>>]]
    /\ RequestTryFrom(<<SET, K, FOO, <<"z", "z">>, <<"1">>>>, now)
           = [ok |-> FALSE, err |-> [e |-> "SyntaxError", name |-> <<>>]]

\* ------------------------------------------------------------ reply frames

NoCrLf(bytes) == \A i \in 1..Len(bytes) : bytes[i] \notin {CR, LF}

\* One reply frame of the reply grammar: '_' CRLF; '+', ':' or '-', a payload
\* without CR and LF, CRLF; '$' len CRLF, len bytes, CRLF.
IsReplyFrame(bytes) ==
    \/ bytes = <<NULL_TYPE, CR, LF>>
    \/ /\ Len(bytes) >= 3
       /\ bytes[1] \in {SIMPLE_STRING_TYPE, INTEGER_TYPE, ERROR_TYPE}
       /\ SubSeq(bytes, Len(bytes) - 1, Len(bytes)) = <<CR, LF>>
       /\ NoCrLf(SubSeq(bytes, 2, Len(bytes) - 2))
    \/ /\ Len(bytes) >= 6
       /\ bytes[1] = BULK_STRING_TYPE
       /\ \E n \in 0..Len(bytes) :
             bytes = <<BULK_STRING_TYPE>> \o NatToString(n) \o <<CR, LF>>
                     \o SubSeq(bytes, Len(bytes) - n - 1, Len(bytes) - 2) \o <<CR, LF>>

\* ---- C37: every reply the pipeline emits, for any request arguments, is a
\* single well-formed reply frame: the payload of a SimpleString, Integer or
\* SimpleError reply never contains a CR or LF byte, also when the payload
\* embeds client-supplied text such as the command name echoed in an
\* UnknownCommand error.
C37_RepliesAreSingleFrames ==
    /\ \A i \in 1..Len(sent) : IsReplyFrame(sent[i])
    /\ (pending # None /\ Unwrap(pending).t \in {"SimpleString", "Integer", "SimpleError"})
           => NoCrLf(as_bytes(Unwrap(pending).s))

\* ------------------------------------------------------- the keyspace lock

\* ---- C38: no command and no reaper pass aborts while it holds the keyspace
\* lock: for every request that parses, the handler returns a reply and
\* releases the lock, so the lock is never left held or poisoned and every
\* later command and reaper pass can still acquire it.
C38_NoAbortUnderLock ==
    /\ ~poisoned
    /\ last.step = "cmd" => last.reply # Aborted
    /\ \A sample_size \in 1..MaxSample :
          \A indexes \in sample(Len(db), Min(sample_size, Len(db))) :
              ENABLED Reap(sample_size, indexes)

\* ------------------------------------------------------------ frame effect

\* ---- C39: a command changes only the entries of the keys it names: PING,
\* ECHO and a request that does not parse never change the keyspace, and
\* after GET, SET, EXISTS, DEL or a numeric command every key the command
\* does not list maps to the same value and expiry as before (an unordered
\* removal may move other entries, never change them).
C39_OnlyNamedKeysChange ==
    \A r \in Requests[now] : \A shared \in Handlers(r) :
        LET out == Outcome(r, shared)
        IN  /\ (~r.ok \/ r.v.c \in {"Ping", "Echo"}) => out.map = db
            /\ \A k \in Keys : ~Names(r, k) => get(out.map, k) = get(db, k)
            /\ KeysOf(out.map) \subseteq Keys
            /\ Len(out.map) = Cardinality(KeysOf(out.map))

\* C39 witness: DEL K has just removed the entry of K from a keyspace that
\* also holds J, and J still has its entry.
C39_Witness ==
    /\ last.step = "cmd" /\ last.c = "Del" /\ last.key = K
    /\ last.pre # "absent"
    /\ last.reply = IntegerReply(1)
    /\ get(db, K) = None
    /\ get(db, J) # None

\* ------------------------------------------------------ the decoder's reach

\* The four errors of the decoder.
DeserializeErrors == {InvalidStartOfMsg, MalformedArray, BulkStringExpected, MalformedBulkString}

\* ---- C40: the decoder is total and stays in bounds: for every input byte
\* string, empty, truncated at any position, with any declared count or
\* length, it returns either a decoded sequence or one of the four decoder
\* errors; it never reads a position at or past the end of the input and
\* never aborts, so what it returns was read inside the input.
C40_DecoderTotal ==
    (buf # <<>> /\ des # None) =>
        LET msg == buf[1]
            r == Unwrap(des)
        IN  IF r.ok
            THEN /\ Len(r.v) <= Len(msg)
                 /\ \A i \in 1..Len(r.v) :
                       \E from \in 1..(Len(msg) + 1) :
                           SubSeq(msg, from, from + Len(as_bytes(r.v[i])) - 1) = as_bytes(r.v[i])
            ELSE r.err \in DeserializeErrors

\* C40 witness: a frame cut right after the length line of its only element,
\* where the next read would be at the end of the input, has been refused as
\* a malformed bulk string.
C40_Witness ==
    /\ buf = <<<<ARRAY_TYPE, "1", CR, LF, BULK_STRING_TYPE, "1", CR, LF>>>>
    /\ des = Some(Err(MalformedBulkString))

====
